---- MODULE Spec2Model ----
(***************************************************************************)
(* Model of the strategy-recommendation engine of the EGX price-prediction *)
(* application: services/strategy_engine.py with the indicator library     *)
(* (core/indicators.py) and the risk / validation primitives               *)
(* (core/quant.py, core/series_utils.py) it calls.                         *)
(*                                                                         *)
(* Numbers are fixed point.  Prices are integers in units of 1/PScale      *)
(* (four decimals, the precision the engine rounds its levels to), returns *)
(* and VaR in units of 1/RScale (basis points), scores and the Hurst       *)
(* exponent in units of 1/SScale, weights in units of 1/WScale and the     *)
(* blended score in units of 1/(WScale*SScale).  Divisions of the float    *)
(* code that do not come out even are floored at that resolution.          *)
(***************************************************************************)
EXTENDS Integers, Sequences, FiniteSets, TLC

\* ------------------------------------------------------------------------
\* Fixed-point scales
\* ------------------------------------------------------------------------
PScale == 10 ^ 4
RScale == 10 ^ 4
SScale == 10 ^ 3
WScale == 10 ^ 6
BScale == WScale * SScale

\* ------------------------------------------------------------------------
\* Small helpers (Python / numpy built-ins)
\* ------------------------------------------------------------------------
None == <<>>
Some(x) == <<x>>
IsNone(o) == o = <<>>
Val(o) == o[1]

Abs(x) == IF x < 0 THEN -x ELSE x
Min(a, b) == IF a <= b THEN a ELSE b
Max(a, b) == IF a >= b THEN a ELSE b
\* np.clip(x, lo, hi)
Clip(x, lo, hi) == IF x < lo THEN lo ELSE IF x > hi THEN hi ELSE x

\* Python round() of the rational whole + num/den (0 <= num < den): to the
\* nearest integer, a tie to the even one.
RoundHalfEven(whole, num, den) ==
    IF 2 * num < den THEN whole
    ELSE IF 2 * num > den THEN whole + 1
    ELSE IF whole % 2 = 0 THEN whole ELSE whole + 1

\* round(a / b) for b > 0, a any integer (\div floors, % is non-negative)
RoundDiv(a, b) == RoundHalfEven(a \div b, a % b, b)

\* s[lo] + ... + s[hi]
RECURSIVE SumRange(_, _, _)
SumRange(s, lo, hi) ==
    IF lo > hi THEN 0
    ELSE IF lo = hi THEN s[lo]
    ELSE CHOOSE r \in {SumRange(s, lo, m) + SumRange(s, m + 1, hi) : m \in {(lo + hi) \div 2}} : TRUE

SumSeq(s) == SumRange(s, 1, Len(s))

\* the sequence s with every element evaluated
Seq1(s) == SubSeq(s, 1, Len(s))

\* s.iloc[-k:]
LastN(s, k) == IF Len(s) > k THEN SubSeq(s, Len(s) - k + 1, Len(s)) ELSE s

\* ------------------------------------------------------------------------
\* Price series handed to the engine (core/schemas.py PriceSeries).  A bar is
\* [date, close]; dates are distinct day numbers.  The short series are
\* written out, the long ones are generated from a daily move pattern.
\* ------------------------------------------------------------------------
\* bars of the longest series beyond DEFAULT_RISK_LOOKBACK_DAYS + 1
ExtraBars == 1
\* bars of the series that has returns for VaR but not for Hurst
MidBars == 80
\* bars of the series that has returns for VaR and for Hurst
FullBars == 130
\* bars of the series that has an RSI window but too few returns for VaR
RsiBars == 20

\* Risk metrics / statistical validation defaults (core/config.py)
DEFAULT_RISK_LOOKBACK_DAYS == 252
MIN_OBSERVATIONS_RISK == 60
DEFAULT_VALIDATION_LOOKBACK_DAYS == 252
MIN_OBSERVATIONS_VALIDATION == 100
HURST_TRENDING_THRESHOLD == 600
HURST_MEAN_REVERTING_THRESHOLD == 400

LongBars == DEFAULT_RISK_LOOKBACK_DAYS + 1 + ExtraBars

SeriesIds ==
    {"single", "jump_up", "jump_down", "penny", "rally", "choppy", "swing", "zigzag", "crash_calm"}

\* triangular wave of the given half period
Tri(i, half) == LET m == i % (2 * half) IN IF m <= half THEN m ELSE 2 * half - m

\* close of bar i of a generated series
GenClose(id, i) ==
    CASE id = "rally" -> 10 * PScale + 1500 * Min(i, 14) - 300 * Max(0, i - 14) + ((i * 3) % 4) * 50
      [] id = "choppy" -> 10 * PScale + (((i * 37) % 21) - 10) * 80 + ((i * 11) % 7) * 30
      [] id = "swing" -> 10 * PScale + 600 * Tri(i, 32) + (((i * 7) % 5) - 2) * 40
      [] id = "zigzag" -> 10 * PScale + <<900, 1400, 500, 0>>[(i % 4) + 1 - (IF i % 4 = 0 THEN -3 ELSE 1)]
                          + (((i * 13) % 11) - 5) * 20
      [] id = "crash_calm" -> IF i <= 27
                              THEN 10 * PScale + (IF i % 2 = 1 THEN 0 ELSE -7000) + 100 * i
                              ELSE 10 * PScale + 2700 + (i - 27) * 20 + (((i * 29) % 17) - 8) * 25

GenBars(id, n) == Seq1([i \in 1..n |-> [date |-> i, close |-> GenClose(id, i)]])

FirstBar == [date |-> 1, close |-> 10 * PScale]

Bars(id) ==
    CASE id = "single" -> <<FirstBar>>
      [] id = "jump_up" -> <<[date |-> 2, close |-> 15 * PScale], FirstBar>>
      [] id = "jump_down" -> <<[date |-> 1, close |-> 15 * PScale], [date |-> 2, close |-> 10 * PScale]>>
      [] id = "penny" -> <<[date |-> 1, close |-> 15], [date |-> 2, close |-> 15]>>
      [] id = "rally" -> GenBars(id, RsiBars)
      [] id = "choppy" -> GenBars(id, MidBars)
      [] id = "swing" -> GenBars(id, FullBars)
      [] id = "zigzag" -> GenBars(id, FullBars)
      [] id = "crash_calm" -> GenBars(id, LongBars)

\* ------------------------------------------------------------------------
\* core/series_utils.py and PriceSeries accessors
\* ------------------------------------------------------------------------
\* df.sort_values("date"): bar j goes to the position given by the number of
\* bars dated before it
SortByDate(bars) ==
    LET n == Len(bars)
        rank == Seq1([j \in 1..n |-> 1 + Cardinality({i \in 1..n : bars[i].date < bars[j].date})])
    IN Seq1([r \in 1..n |-> bars[CHOOSE j \in 1..n : rank[j] = r]])

\* to_dataframe + close_series: the closes in ascending date order
close_series(bars) ==
    LET sorted == SortByDate(bars)
    IN Seq1([i \in 1..Len(sorted) |-> sorted[i].close])

\* PriceSeries.get_latest_bar: max(self.bars, key=date)
get_latest_bar(bars) ==
    CHOOSE b \in {bars[i] : i \in 1..Len(bars)} :
        \A i \in 1..Len(bars) : bars[i].date <= b.date

get_latest_close(bars) == get_latest_bar(bars).close

\* simple_returns: closes.pct_change().dropna(), in basis points
simple_returns(closes) ==
    Seq1([i \in 1..(Len(closes) - 1) |->
        ((closes[i + 1] - closes[i]) * RScale) \div closes[i]])

\* get_returns with Config.DEFAULT_RETURN_TYPE = "simple"
get_returns(closes) == simple_returns(closes)

\* ------------------------------------------------------------------------
\* core/indicators.py
\* ------------------------------------------------------------------------
\* number of values one pass of the moving average extends its result by
Chunk == 2 ^ 5

\* one step of x.ewm(span=span, adjust=False).mean():
\* y[t] = (1 - a) * y[t-1] + a * x[t] with a = 2 / (span + 1)
EwmStep(acc, x, span) ==
    Append(acc, ((span - 1) * acc[Len(acc)] + 2 * x[Len(acc) + 1]) \div (span + 1))

RECURSIVE EwmExtend(_, _, _, _)
EwmExtend(acc, x, span, upto) ==
    IF Len(acc) >= upto THEN acc
    ELSE CHOOSE r \in {EwmExtend(v, x, span, upto) : v \in {EwmStep(acc, x, span)}} : TRUE

RECURSIVE EwmFrom(_, _, _)
EwmFrom(acc, x, span) ==
    IF Len(acc) >= Len(x) THEN acc
    ELSE CHOOSE r \in {EwmFrom(v, x, span) :
                       v \in {EwmExtend(acc, x, span, Min(Len(x), Len(acc) + Chunk))}} : TRUE

\* x.ewm(span=span, adjust=False).mean(), seeded by the first value
Ewm(x, span) ==
    IF x = <<>> THEN <<>>
    ELSE CHOOSE r \in {EwmFrom(<<v[1]>>, v, span) : v \in {Seq1(x)}} : TRUE

\* calculate_ema(series, period).dropna().iloc[-1]
calculate_ema_last(closes, period) == LET e == Ewm(closes, period) IN e[Len(e)]

\* calculate_macd(series): the last values of the MACD line and the histogram
calculate_macd_last(closes) ==
    LET fast_ema == Ewm(closes, 12)
        slow_ema == Ewm(closes, 26)
        macd_line == Seq1([i \in 1..Len(closes) |-> fast_ema[i] - slow_ema[i]])
        signal_line == Ewm(macd_line, 9)
        n == Len(closes)
    IN [macd |-> macd_line[n], histogram |-> macd_line[n] - signal_line[n]]

\* calculate_rsi(series, period).dropna().iloc[-1] as the pair (gain, loss) of
\* the last window whose RSI is a number: RSI = 100 * gain / (gain + loss).
\* A window with neither gain nor loss gives 0/0 = NaN and is dropped; with
\* no window left .iloc[-1] raises IndexError, modelled by None.
calculate_rsi_last(closes, period) ==
    LET n == Len(closes)
        delta == Seq1([i \in 1..(n - 1) |-> closes[i + 1] - closes[i]])
        defined == {e \in period..(n - 1) : \E i \in (e - period + 1)..e : delta[i] # 0}
    IN IF defined = {} THEN None
       ELSE LET e == CHOOSE m \in defined : \A o \in defined : o <= m
                gain == SumSeq([j \in 1..period |-> Max(delta[e - period + j], 0)])
                loss == SumSeq([j \in 1..period |-> Max(-delta[e - period + j], 0)])
            IN Some([gain |-> gain, loss |-> loss])

\* ------------------------------------------------------------------------
\* core/quant.py
\* ------------------------------------------------------------------------
\* the k-th smallest value of s (k in 1..Len(s))
KthSmallest(s, k) ==
    CHOOSE v \in {s[i] : i \in 1..Len(s)} :
        /\ Cardinality({i \in 1..Len(s) : s[i] < v}) < k
        /\ Cardinality({i \in 1..Len(s) : s[i] <= v}) >= k

\* returns.quantile(q) for q = pct / 100, pandas' linear interpolation
Quantile(s, pct) ==
    LET pos == (Len(s) - 1) * pct
        lo == pos \div 100
        frac == pos % 100
        a == KthSmallest(s, lo + 1)
    IN IF frac = 0 THEN a
       ELSE a + ((KthSmallest(s, lo + 2) - a) * frac) \div 100

\* variant: the quantile is taken at the confidence level itself
compute_var_UpperTail(returns, confidence) ==
    IF Len(returns) < MIN_OBSERVATIONS_RISK THEN None
    ELSE Some(Quantile(returns, confidence))

\* compute_var(returns, confidence), confidence in percent
compute_var(returns, confidence) ==
    IF Len(returns) < MIN_OBSERVATIONS_RISK THEN None
    ELSE Some(Quantile(returns, 100 - confidence))

\* compute_risk_snapshot(series): VaR on the returns of the lookback window
compute_risk_snapshot(bars) ==
    LET all == get_returns(close_series(bars))
        returns == LastN(all, DEFAULT_RISK_LOOKBACK_DAYS)
        var_95 == compute_var(returns, 95)
        var_99 == compute_var(returns, 99)
    IN [var_95_pct |-> var_95,
        var_99_pct |-> var_99,
        lookback_days |-> Min(DEFAULT_RISK_LOOKBACK_DAYS, Len(returns)),
        warnings |-> IF IsNone(var_95) THEN <<"Insufficient data for VaR/Sharpe">> ELSE <<>>]

\* np.log of a positive integer, as 1000 * log2(x): the exponent plus a
\* 16-segment linear interpolation of log2 on the mantissa.  (The slope of
\* log(var) on log(k) does not depend on the base of the logarithm.)
Log2Table == <<0, 87, 170, 248, 322, 392, 459, 524, 585, 644, 700, 755, 807, 858, 907, 954, 1000>>

Log2Milli(x) ==
    LET e == IF x >= 2 ^ 30 THEN 30 ELSE CHOOSE c \in 0..29 : 2 ^ c <= x /\ x < 2 ^ (c + 1)
        t == IF e >= 10 THEN (x - 2 ^ e) \div (2 ^ (e - 10)) ELSE (x - 2 ^ e) * 2 ^ (10 - e)
        seg == t \div 64
    IN 1000 * e + Log2Table[seg + 1] + ((Log2Table[seg + 2] - Log2Table[seg + 1]) * (t % 64)) \div 64

HurstUnavailable == [hurst |-> None, hurst_regime |-> "None"]

\* classification of a Hurst exponent (in 1/SScale)
HurstRegimeOf(hurst_val) ==
    IF hurst_val < HURST_MEAN_REVERTING_THRESHOLD THEN "mean_reverting"
    ELSE IF hurst_val > HURST_TRENDING_THRESHOLD THEN "trending"
    ELSE "random_like"

\* one block size k = 2^j of the aggregated-variance method: the blocks'
\* sums, and m * sum(S^2) - (sum S)^2 = m * (m - 1) * k^2 * var(block means)
HurstPoint(data, j) ==
    LET k == 2 ^ j
        n_blocks == Len(data) \div k
        sums == Seq1([b \in 1..n_blocks |-> SumRange(data, (b - 1) * k + 1, b * k)])
        total == SumSeq(sums)
        squares == SumSeq([b \in 1..n_blocks |-> sums[b] * sums[b]])
        d == n_blocks * squares - total * total
    IN IF n_blocks < 2 \/ d <= 0 THEN None
       ELSE Some([log_k |-> j,
                  log_var |-> Log2Milli(d) - Log2Milli(n_blocks) - Log2Milli(n_blocks - 1) - 2000 * j])

\* variant: H = 1 + slope / 2 without np.clip
compute_hurst_Unclamped(returns) ==
    IF Len(returns) < MIN_OBSERVATIONS_VALIDATION THEN HurstUnavailable
    ELSE LET n == Len(returns)
             max_k == Max(2, n \div 4)
             ks == {j \in 1..29 : 2 ^ j <= max_k}
         IN IF Cardinality(ks) < 3 THEN HurstUnavailable
            ELSE LET cand == [j \in ks |-> HurstPoint(returns, j)]
                     used == {j \in ks : ~IsNone(cand[j])}
                     xs == Seq1([i \in 1..Cardinality(used) |->
                               CHOOSE j \in used : Cardinality({o \in used : o < j}) = i - 1])
                     p == Len(xs)
                     sx == SumSeq(xs)
                     sy == SumSeq([i \in 1..p |-> Val(cand[xs[i]]).log_var])
                     sxy == SumSeq([i \in 1..p |-> xs[i] * Val(cand[xs[i]]).log_var])
                     sxx == SumSeq([i \in 1..p |-> xs[i] * xs[i]])
                 IN IF p < 3 THEN HurstUnavailable
                    ELSE LET hurst_val == SScale + (p * sxy - sx * sy) \div (2 * (p * sxx - sx * sx))
                         IN [hurst |-> Some(hurst_val), hurst_regime |-> HurstRegimeOf(hurst_val)]

\* compute_hurst(returns): aggregated variance, H = 1 + slope / 2
compute_hurst(returns) ==
    IF Len(returns) < MIN_OBSERVATIONS_VALIDATION THEN HurstUnavailable
    ELSE LET n == Len(returns)
             max_k == Max(2, n \div 4)
             ks == {j \in 1..29 : 2 ^ j <= max_k}
         IN IF Cardinality(ks) < 3 THEN HurstUnavailable
            ELSE LET cand == [j \in ks |-> HurstPoint(returns, j)]
                     used == {j \in ks : ~IsNone(cand[j])}
                     xs == Seq1([i \in 1..Cardinality(used) |->
                               CHOOSE j \in used : Cardinality({o \in used : o < j}) = i - 1])
                     p == Len(xs)
                     sx == SumSeq(xs)
                     sy == SumSeq([i \in 1..p |-> Val(cand[xs[i]]).log_var])
                     sxy == SumSeq([i \in 1..p |-> xs[i] * Val(cand[xs[i]]).log_var])
                     sxx == SumSeq([i \in 1..p |-> xs[i] * xs[i]])
                 IN IF p < 3 THEN HurstUnavailable
                    ELSE LET hurst_val == Clip(SScale + (p * sxy - sx * sy) \div (2 * (p * sxx - sx * sx)),
                                               0, SScale)
                         IN [hurst |-> Some(hurst_val), hurst_regime |-> HurstRegimeOf(hurst_val)]

\* compute_validation(series): Hurst on the returns of the lookback window
\* (the ADF test, which the engine does not read, is left out)
compute_validation(bars) ==
    LET all == get_returns(close_series(bars))
        returns == LastN(all, DEFAULT_VALIDATION_LOOKBACK_DAYS)
        hurst_result == compute_hurst(returns)
    IN [hurst |-> hurst_result.hurst,
        hurst_regime |-> hurst_result.hurst_regime,
        lookback_days |-> Min(DEFAULT_VALIDATION_LOOKBACK_DAYS, Len(returns)),
        warnings |-> IF IsNone(hurst_result.hurst) THEN <<"Insufficient data for Hurst exponent.">>
                     ELSE IF hurst_result.hurst_regime = "random_like"
                          THEN <<"Hurst exponent suggests random-walk-like behavior.">>
                          ELSE <<>>]

\* calculate_var / calculate_hurst: the aliases the engine imports
calculate_var(returns, confidence) == compute_var(returns, confidence)
calculate_hurst(returns) == compute_hurst(returns)

\* ------------------------------------------------------------------------
\* What the engine reads from a price series: its latest bar and the results
\* of the pure library functions it calls on the series
\* ------------------------------------------------------------------------
SeriesFacts(id) ==
        LET bars == Bars(id)
            closes == close_series(bars)
            returns == get_returns(closes)
        IN [series |-> id,
            current_price |-> get_latest_close(bars),
            as_of |-> get_latest_bar(bars).date,
            n_returns |-> Len(returns),
            rsi |-> calculate_rsi_last(closes, 14),
            macd |-> calculate_macd_last(closes),
            ema50 |-> calculate_ema_last(closes, 50),
            var_95 |-> calculate_var(returns, 95),
            hurst |-> calculate_hurst(returns),
            risk_snapshot |-> compute_risk_snapshot(bars),
            validation |-> compute_validation(bars)]

\* ------------------------------------------------------------------------
\* services/strategy_engine.py
\* ------------------------------------------------------------------------
Sources == {"ml", "technical", "regime", "risk"}

DEFAULT_WEIGHTS == [ml |-> 350000, technical |-> 300000, regime |-> 200000, risk |-> 150000]

\* action thresholds, in 1/BScale, and the conviction floor
_BUY_THRESHOLD == 200000000
_SELL_THRESHOLD == -200000000
_MIN_CONVICTION == 30

\* risk-distance clamp bounds, in basis points
_MIN_RISK_DISTANCE == 50
_MAX_RISK_DISTANCE == 1000

\* sum(mapping.values())
RECURSIVE SumValues(_, _)
SumValues(map, keys) ==
    IF keys = {} THEN 0
    ELSE CHOOSE r \in {map[k] + SumValues(map, keys \ {k}) : k \in {CHOOSE c \in keys : TRUE}} : TRUE

\* math.isclose(a, b, abs_tol=1e-6) with the default rel_tol of 1e-9
IsClose(a, b) == Abs(a - b) <= Max(Max(Abs(a), Abs(b)) \div (10 ^ 9), WScale \div (10 ^ 6))

\* StrategyEngine._init_(weights): arg is [given, map]; the result is the
\* engine's weights, or ValueError
StrategyEngine_init(arg) ==
    LET weights == IF arg.given /\ DOMAIN arg.map # {} THEN arg.map ELSE DEFAULT_WEIGHTS
        total == SumValues(weights, DOMAIN weights)
    IN IF ~IsClose(total, WScale) THEN [raised |-> "ValueError", weights |-> <<>>]
       ELSE [raised |-> "None", weights |-> weights]

\* the direction of a score with the given neutral band
Direction(score, band) ==
    IF score > band THEN "bullish" ELSE IF score < -band THEN "bearish" ELSE "neutral"

EvidenceSignal(source, direction, weight, score) ==
    [source |-> source, direction |-> direction, weight |-> weight, score |-> score]

\* clamp(num / den * mult, -1, 1) in 1/SScale, for den > 0
ClipRatio(num, den, mult) ==
    IF num * mult >= den THEN SScale
    ELSE IF num * mult <= -den THEN -SScale
    ELSE (num * mult * SScale) \div den

\* _ml_signal(forecast, current_price)
_ml_signal(weights, forecast, current_price) ==
    IF IsNone(forecast) \/ current_price <= 0
    THEN [score |-> 0, evidence |-> <<EvidenceSignal("ml_forecast", "neutral", weights["ml"], 0)>>]
    ELSE LET score == ClipRatio(Val(forecast) - current_price, current_price, 10)
         IN [score |-> score,
             evidence |-> <<EvidenceSignal("ml_forecast", Direction(score, 50), weights["ml"], score)>>]

\* the RSI sub-score: below 30 -> +1, above 70 -> -1, else interpolated
RsiScore(gain, loss) ==
    IF 100 * gain < 30 * (gain + loss) THEN SScale
    ELSE IF 100 * gain > 70 * (gain + loss) THEN -SScale
    ELSE (2500 * (loss - gain)) \div (gain + loss)

\* the EMA(50) sub-score
EmaScore(current_price, ema_val) ==
    IF current_price > 0 /\ ema_val > 0 THEN ClipRatio(current_price - ema_val, ema_val, 10) ELSE 0

\* the MACD sub-score: histogram / price * 100, clipped
MacdScore(current_price, hist_val) ==
    IF current_price > 0 THEN ClipRatio(hist_val, current_price, 100) ELSE 0

\* variant: no placeholder signal when no indicator is computable
_technical_signal_NoPlaceholder(weights, f, current_price, raising) ==
    LET w == weights["technical"]
        rsi == IF "rsi" \in raising \/ IsNone(f.rsi) THEN <<>>
               ELSE <<RsiScore(Val(f.rsi).gain, Val(f.rsi).loss)>>
        macd == IF "macd" \in raising THEN <<>> ELSE <<MacdScore(current_price, f.macd.histogram)>>
        ema == IF "ema" \in raising THEN <<>> ELSE <<EmaScore(current_price, f.ema50)>>
        sub_scores == rsi \o macd \o ema
        evidence ==
            [i \in 1..Len(rsi) |-> EvidenceSignal("rsi", Direction(rsi[i], 100), w, rsi[i])]
            \o [i \in 1..Len(macd) |-> EvidenceSignal("macd", Direction(macd[i], 50), w, macd[i])]
            \o [i \in 1..Len(ema) |-> EvidenceSignal("ema", Direction(ema[i], 50), w, ema[i])]
    IN IF sub_scores # <<>>
       THEN [score |-> SumSeq(sub_scores) \div Len(sub_scores), evidence |-> evidence]
       ELSE [score |-> 0, evidence |-> <<>>]

\* _technical_signal(series, current_price); an indicator of `raising`
\* raises inside its try block
_technical_signal(weights, f, current_price, raising) ==
    LET w == weights["technical"]
        rsi == IF "rsi" \in raising \/ IsNone(f.rsi) THEN <<>>
               ELSE <<RsiScore(Val(f.rsi).gain, Val(f.rsi).loss)>>
        macd == IF "macd" \in raising THEN <<>> ELSE <<MacdScore(current_price, f.macd.histogram)>>
        ema == IF "ema" \in raising THEN <<>> ELSE <<EmaScore(current_price, f.ema50)>>
        sub_scores == rsi \o macd \o ema
        evidence ==
            [i \in 1..Len(rsi) |-> EvidenceSignal("rsi", Direction(rsi[i], 100), w, rsi[i])]
            \o [i \in 1..Len(macd) |-> EvidenceSignal("macd", Direction(macd[i], 50), w, macd[i])]
            \o [i \in 1..Len(ema) |-> EvidenceSignal("ema", Direction(ema[i], 50), w, ema[i])]
    IN IF sub_scores # <<>>
       THEN [score |-> SumSeq(sub_scores) \div Len(sub_scores), evidence |-> evidence]
       ELSE [score |-> 0, evidence |-> <<EvidenceSignal("rsi", "neutral", w, 0)>>]

\* _regime_signal(returns, validation)
_regime_signal(weights, f, validation, raising) ==
    LET precomputed == ~IsNone(validation) /\ ~IsNone(Val(validation).hurst)
        hurst_result == IF precomputed THEN Val(validation) ELSE f.hurst
        hurst_val == hurst_result.hurst
        regime == hurst_result.hurst_regime
        w == weights["regime"]
    IN IF ~precomputed /\ "hurst" \in raising
       THEN [raised |-> TRUE]
       ELSE IF IsNone(hurst_val) \/ regime = "None"
       THEN [raised |-> FALSE, score |-> 0, regime |-> "None",
             evidence |-> <<EvidenceSignal("hurst", "neutral", w, 0)>>]
       ELSE IF regime = "trending"
       THEN [raised |-> FALSE, score |-> 500, regime |-> regime,
             evidence |-> <<EvidenceSignal("hurst", "bullish", w, 500)>>]
       ELSE IF regime = "mean_reverting"
       THEN [raised |-> FALSE, score |-> -300, regime |-> regime,
             evidence |-> <<EvidenceSignal("hurst", "bearish", w, -300)>>]
       ELSE [raised |-> FALSE, score |-> 0, regime |-> regime,
             evidence |-> <<EvidenceSignal("hurst", "neutral", w, 0)>>]

\* np.interp(abs_var, [0.0, 0.05, 0.10], [0.5, 0.0, -1.0]) in 1/SScale
RiskScore(abs_var) ==
    IF abs_var <= 500 THEN 500 - abs_var
    ELSE IF abs_var <= 1000 THEN -2 * (abs_var - 500)
    ELSE -SScale

\* variant: an unavailable VaR is an error instead of a neutral score
_risk_signal_Strict(weights, f, risk_snapshot, raising) ==
    LET precomputed == ~IsNone(risk_snapshot) /\ ~IsNone(Val(risk_snapshot).var_95_pct)
        var_pct == IF precomputed THEN Val(risk_snapshot).var_95_pct ELSE f.var_95
        abs_var == Abs(Val(var_pct))
    IN IF (~precomputed /\ "var" \in raising) \/ IsNone(var_pct)
       THEN [raised |-> TRUE]
       ELSE [raised |-> FALSE, score |-> RiskScore(abs_var),
             risk_distance |-> Some(Clip(abs_var, _MIN_RISK_DISTANCE, _MAX_RISK_DISTANCE)),
             evidence |-> <<EvidenceSignal("var", Direction(RiskScore(abs_var), 100),
                                           weights["risk"], RiskScore(abs_var))>>]

\* variant: the risk distance is abs(VaR) itself, without np.clip
_risk_signal_Unclamped(weights, f, risk_snapshot, raising) ==
    LET precomputed == ~IsNone(risk_snapshot) /\ ~IsNone(Val(risk_snapshot).var_95_pct)
        var_pct == IF precomputed THEN Val(risk_snapshot).var_95_pct ELSE f.var_95
        w == weights["risk"]
    IN IF ~precomputed /\ "var" \in raising
       THEN [raised |-> TRUE]
       ELSE IF IsNone(var_pct)
       THEN [raised |-> FALSE, score |-> 0, risk_distance |-> None,
             evidence |-> <<EvidenceSignal("var", "neutral", w, 0)>>]
       ELSE LET abs_var == Abs(Val(var_pct))
                risk_score == RiskScore(abs_var)
            IN [raised |-> FALSE, score |-> risk_score,
                risk_distance |-> Some(abs_var),
                evidence |-> <<EvidenceSignal("var", Direction(risk_score, 100), w, risk_score)>>]

\* _risk_signal(returns, current_price, risk_snapshot)
_risk_signal(weights, f, risk_snapshot, raising) ==
    LET precomputed == ~IsNone(risk_snapshot) /\ ~IsNone(Val(risk_snapshot).var_95_pct)
        var_pct == IF precomputed THEN Val(risk_snapshot).var_95_pct ELSE f.var_95
        w == weights["risk"]
    IN IF ~precomputed /\ "var" \in raising
       THEN [raised |-> TRUE]
       ELSE IF IsNone(var_pct)
       THEN [raised |-> FALSE, score |-> 0, risk_distance |-> None,
             evidence |-> <<EvidenceSignal("var", "neutral", w, 0)>>]
       ELSE LET abs_var == Abs(Val(var_pct))
                risk_score == RiskScore(abs_var)
            IN [raised |-> FALSE, score |-> risk_score,
                risk_distance |-> Some(Clip(abs_var, _MIN_RISK_DISTANCE, _MAX_RISK_DISTANCE)),
                evidence |-> <<EvidenceSignal("var", Direction(risk_score, 100), w, risk_score)>>]

\* round(base + num / den, 4) for a price in 1/PScale
RoundPrice(base, num, den) == RoundHalfEven(base + (num \div den), num % den, den)

\* _compute_target(action, current_price, risk_distance, regime, forecast, series)
_compute_target(action, current_price, rd, regime, forecast, f, raising) ==
    LET has_ml == ~IsNone(forecast) /\ Val(forecast) # 0
        ema_val == IF "ema" \in raising THEN current_price ELSE f.ema50
    IN IF regime = "trending" \/ regime = "None"
       THEN IF action = "buy"
            THEN IF has_ml /\ (Val(forecast) - current_price) * RScale <= 4 * current_price * rd
                 THEN Val(forecast)
                 ELSE RoundPrice(current_price, 4 * current_price * rd, RScale)
            ELSE IF has_ml /\ (Val(forecast) - current_price) * RScale >= -4 * current_price * rd
                 THEN Val(forecast)
                 ELSE RoundPrice(current_price, -4 * current_price * rd, RScale)
       ELSE IF action = "buy"
            THEN IF ema_val > current_price THEN ema_val
                 ELSE RoundPrice(current_price, 3 * current_price * rd, 2 * RScale)
            ELSE IF ema_val < current_price THEN ema_val
                 ELSE RoundPrice(current_price, -3 * current_price * rd, 2 * RScale)

\* the blend of the four scores, in 1/BScale
Blend(weights, ml_score, tech_score, regime_score, risk_score) ==
    weights["ml"] * ml_score + weights["technical"] * tech_score
    + weights["regime"] * regime_score + weights["risk"] * risk_score

\* the number of scores that agree with the blend's direction
AlignCount(scores, blended) ==
    LET blended_sign == IF blended >= 0 THEN 1 ELSE -1
    IN Cardinality({i \in 1..Len(scores) :
           (scores[i] >= 0 /\ blended_sign >= 0) \/ (scores[i] < 0 /\ blended_sign < 0)})

\* variant: round(100 * abs(blended) * count / 4), without min() and clamp
Conviction_Unclamped(blended, count) ==
    LET den == BScale \div 25
        m == Abs(blended)
        part == (m % den) * count
    IN RoundHalfEven((m \div den) * count + (part \div den), part % den, den)

\* round(100 * min(1.0, abs(blended)) * count / 4), clamped to [0, 100]
Conviction(blended, count) ==
    LET den == BScale \div 25
        m == Min(BScale, Abs(blended))
        part == (m % den) * count
    IN Max(0, Min(100, RoundHalfEven((m \div den) * count + (part \div den), part % den, den)))

\* variant: the thresholds on the blend alone, without the conviction floor
Action_BlendOnly(blended, conviction) ==
    IF blended >= _BUY_THRESHOLD THEN "buy"
    ELSE IF blended <= _SELL_THRESHOLD THEN "sell"
    ELSE "hold"

\* the action rule
Action(blended, conviction) ==
    IF blended >= _BUY_THRESHOLD /\ conviction >= _MIN_CONVICTION THEN "buy"
    ELSE IF blended <= _SELL_THRESHOLD /\ conviction >= _MIN_CONVICTION THEN "sell"
    ELSE "hold"

NoLevels ==
    [entry_zone_lower |-> None, entry_zone_upper |-> None, target_exit |-> None,
     stop_loss |-> None, risk_distance_pct |-> None]

\* variant: the levels are filled whenever the risk distance is known
Levels_AnyAction(action, current_price, risk_distance, regime, forecast, f, raising) ==
    IF ~IsNone(risk_distance)
    THEN LET rd == Val(risk_distance)
             sell_upper == RoundPrice(current_price, current_price * rd, RScale)
         IN [entry_zone_lower |-> Some(RoundPrice(current_price, -(current_price * rd), 4 * RScale)),
             entry_zone_upper |-> Some(sell_upper),
             target_exit |->
                 Some(_compute_target(action, current_price, rd, regime, forecast, f, raising)),
             stop_loss |-> Some(RoundPrice(sell_upper, sell_upper * rd, RScale)),
             risk_distance_pct |-> Some(rd * 100)]
    ELSE [entry_zone_lower |-> None, entry_zone_upper |-> None, target_exit |-> None,
          stop_loss |-> None, risk_distance_pct |-> None]

\* entry zone, stop-loss, target and risk distance of the recommendation
Levels(action, current_price, risk_distance, regime, forecast, f, raising) ==
    IF action # "hold" /\ ~IsNone(risk_distance)
    THEN LET rd == Val(risk_distance)
             buy_lower == RoundPrice(current_price, -(current_price * rd), RScale)
             sell_upper == RoundPrice(current_price, current_price * rd, RScale)
         IN [entry_zone_lower |->
                 Some(IF action = "buy" THEN buy_lower
                      ELSE RoundPrice(current_price, -(current_price * rd), 4 * RScale)),
             entry_zone_upper |->
                 Some(IF action = "buy" THEN RoundPrice(current_price, current_price * rd, 4 * RScale)
                      ELSE sell_upper),
             target_exit |->
                 Some(_compute_target(action, current_price, rd, regime, forecast, f, raising)),
             stop_loss |->
                 Some(IF action = "buy" THEN RoundPrice(buy_lower, -(buy_lower * rd), RScale)
                      ELSE RoundPrice(sell_upper, sell_upper * rd, RScale)),
             risk_distance_pct |-> Some(rd * 100)]
    ELSE NoLevels

\* the evidence items of one direction, in their original order
Bucket(all_evidence, direction) == SelectSeq(all_evidence, LAMBDA e : e.direction = direction)

\* _build_logic_summary: the parts of the sentence, in order
_build_logic_summary(action, conviction, regime, bullish, bearish) ==
    <<[part |-> "action", action |-> action, conviction |-> conviction]>>
    \o (IF regime # "None" THEN <<[part |-> "regime", regime |-> regime]>> ELSE <<>>)
    \o (IF bullish # <<>> THEN <<[part |-> "bullish"]>> ELSE <<>>)
    \o (IF bearish # <<>> THEN <<[part |-> "bearish"]>> ELSE <<>>)
    \o (IF action = "hold" /\ bullish = <<>> /\ bearish = <<>>
        THEN <<[part |-> "defaulting_to_hold"]>> ELSE <<>>)

\* _raw_inputs_snapshot: a static method, it does not see the engine
_raw_inputs_snapshot(ml_score, tech_score, regime_score, risk_score, blended, count, risk_distance, regime) ==
    [scores |-> [ml |-> ml_score, technical |-> tech_score, regime |-> regime_score,
                 risk |-> risk_score, blended |-> RoundDiv(blended, BScale \div PScale)],
     alignment |-> count * 2500,
     risk_distance |-> IF ~IsNone(risk_distance) /\ Val(risk_distance) # 0 THEN risk_distance ELSE None,
     regime |-> regime,
     weights |-> DEFAULT_WEIGHTS]

\* StrategyEngine.compute_recommendation(series, forecast, risk_snapshot,
\* validation_result) on an engine with the given weights; `raising` names
\* the library computations that raise during this call
compute_recommendation(weights, f, forecast, risk_snapshot, validation_result, raising) ==
    IF ~(Sources \subseteq DOMAIN weights)
    THEN [raised |-> TRUE]
    ELSE
    LET current_price == f.current_price
        ml == _ml_signal(weights, forecast, current_price)
        tech == _technical_signal(weights, f, current_price, raising)
        reg == _regime_signal(weights, f, validation_result, raising)
        risk == _risk_signal(weights, f, risk_snapshot, raising)
    IN IF reg.raised \/ risk.raised THEN [raised |-> TRUE]
       ELSE
       LET blended == Blend(weights, ml.score, tech.score, reg.score, risk.score)
           scores == <<ml.score, tech.score, reg.score, risk.score>>
           count == AlignCount(scores, blended)
           conviction == Conviction(blended, count)
           action == Action(blended, conviction)
           levels == Levels(action, current_price, risk.risk_distance, reg.regime, forecast, f, raising)
           all_evidence == ml.evidence \o tech.evidence \o reg.evidence \o risk.evidence
           bullish == Bucket(all_evidence, "bullish")
           bearish == Bucket(all_evidence, "bearish")
           neutral == Bucket(all_evidence, "neutral")
       IN [raised |-> FALSE,
           as_of_date |-> f.as_of,
           action |-> action,
           conviction |-> conviction,
           regime |-> reg.regime,
           entry_zone_lower |-> levels.entry_zone_lower,
           entry_zone_upper |-> levels.entry_zone_upper,
           target_exit |-> levels.target_exit,
           stop_loss |-> levels.stop_loss,
           risk_distance_pct |-> levels.risk_distance_pct,
           evidence_bullish |-> bullish,
           evidence_bearish |-> bearish,
           evidence_neutral |-> neutral,
           logic_summary |-> _build_logic_summary(action, conviction, reg.regime, bullish, bearish),
           raw_inputs |-> _raw_inputs_snapshot(ml.score, tech.score, reg.score, risk.score,
                                              blended, count, risk.risk_distance, reg.regime)]

\* ------------------------------------------------------------------------
\* The inputs the callers may pass
\* ------------------------------------------------------------------------
\* StrategyEngine() and StrategyEngine(weights=...) with these mappings
WeightArgs ==
    {[given |-> FALSE, map |-> <<>>],
     [given |-> TRUE, map |-> <<>>],
     [given |-> TRUE, map |-> [ml |-> 250000, technical |-> 250000, regime |-> 250000, risk |-> 250000]],
     [given |-> TRUE, map |-> [ml |-> 0, technical |-> 1000000, regime |-> 0, risk |-> 0]],
     [given |-> TRUE, map |-> [ml |-> 1200000, technical |-> -200000, regime |-> 0, risk |-> 0]],
     [given |-> TRUE, map |-> [ml |-> 1000000]],
     [given |-> TRUE, map |-> [ml |-> 500000, technical |-> 500000, regime |-> 100000, risk |-> 100000]],
     [given |-> TRUE, map |-> [ml |-> 350002, technical |-> 300000, regime |-> 200000, risk |-> 150000]]}

\* forecasts as a percentage of the series' latest close
ForecastPcts == {80, 97, 103, 120}

Forecasts(f) ==
    {None} \cup {Some((f.current_price * pct) \div 100) : pct \in ForecastPcts}

\* a caller-made RiskMetricsSnapshot with the given 95% VaR
make_risk(var_95) ==
    [var_95_pct |-> Some(var_95), var_99_pct |-> None,
     lookback_days |-> DEFAULT_RISK_LOOKBACK_DAYS, warnings |-> <<>>]

\* a caller-made StatisticalValidationResult with the given Hurst exponent
make_validation(hurst_val) ==
    [hurst |-> Some(hurst_val), hurst_regime |-> HurstRegimeOf(hurst_val),
     lookback_days |-> DEFAULT_VALIDATION_LOOKBACK_DAYS, warnings |-> <<>>]

MadeVars == {-20, -200, -800, 1500}
MadeHursts == {350, 500, 700}

RiskSnapshots(f) ==
    {None, Some(f.risk_snapshot)} \cup {Some(make_risk(v)) : v \in MadeVars}

ValidationResults(f) ==
    {None, Some(f.validation)} \cup {Some(make_validation(h)) : h \in MadeHursts}

\* the library computations that raise during a call: none, one of them, or
\* all three technical indicators
RaisingSets == {{}, {"rsi"}, {"macd"}, {"ema"}, {"hurst"}, {"var"}, {"rsi", "macd", "ema"}}

\* ------------------------------------------------------------------------
\* The state machine: one engine is constructed, then queried repeatedly
\* ------------------------------------------------------------------------
\* market       the price series the callers hold, each with what the engine
\*              reads from it (SeriesFacts)
\* ctor_arg     the argument of the constructor call, None before it
\* ctor_raised  "ValueError" when the constructor raised, else "None"
\* engine       the constructed engine (its weights), None when there is none
\* call         the arguments of the call whose result the caller holds
\* outcome      "none", or how that call ended: "returned" or "raised"
\* rec          the StrategyRecommendation the call returned
\* n_calls      the number of calls made on the engine so far
VARIABLES market, ctor_arg, ctor_raised, engine, call, outcome, rec, n_calls

\* returns_in   a sample of returns handed to compute_var or compute_hurst
\* var_out      None, or the 95% and 99% VaR computed from the sample
\* hurst_out    None, or the result of compute_hurst on the sample
VARIABLES returns_in, var_out, hurst_out

\* rows    the journal_entries table of the journal file, in insertion order
\* added   every entry a successful add_entry was given, in call order
\* clock   the time of the next datetime.now()
\* conn    whether the store holds a connection
\* jcall   "none", or the name of the last journal operation
\* jout    "none", "ok", or the error the last journal operation raised
VARIABLES rows, added, clock, conn, jcall, jout

\* batch_world   per symbol, what the batch service's collaborators do
\* price_cache   the symbols the price service holds a cached series of
\* batch_call    None, or the arguments of the run_batch_insights call
\* batch_out     None, or what the call raised or returned
VARIABLES batch_world, price_cache, batch_call, batch_out

\* providers      ProviderRegistry._providers: the provider registered under
\*                each name
\* default_order  ProviderRegistry._default_order: the names of the default
\*                fallback chain
\* fetch_call     None, or the arguments of the fetch_with_fallback call
\* fetch_log      the provider methods called during that call, in order
\* fetch_out      None, or what the call raised or returned
VARIABLES providers, default_order, fetch_call, fetch_log, fetch_out

\* the calls made on one engine
MaxCalls == 2

engine_vars == <<market, ctor_arg, ctor_raised, engine, call, outcome, rec, n_calls>>
quant_vars == <<returns_in, var_out, hurst_out>>
journal_vars == <<rows, added, clock, conn, jcall, jout>>
batch_vars == <<batch_world, price_cache, batch_call, batch_out>>
registry_vars == <<providers, default_order, fetch_call, fetch_log, fetch_out>>
not_engine_vars == <<quant_vars, journal_vars, batch_vars, registry_vars>>
not_quant_vars == <<engine_vars, journal_vars, batch_vars, registry_vars>>
not_journal_vars == <<engine_vars, quant_vars, batch_vars, registry_vars>>
not_batch_vars == <<engine_vars, quant_vars, journal_vars, registry_vars>>
not_registry_vars == <<engine_vars, quant_vars, journal_vars, batch_vars>>

vars == <<engine_vars, quant_vars, journal_vars, batch_vars, registry_vars>>

\* no engine, no call
EngineIdle ==
    /\ ctor_arg = None
    /\ ctor_raised = "None"
    /\ engine = None
    /\ call = None
    /\ outcome = "none"
    /\ rec = None
    /\ n_calls = 0

\* no sample under study
QuantIdle ==
    /\ returns_in = <<>>
    /\ var_out = None
    /\ hurst_out = None

\* an empty journal, no journal operation
JournalIdle ==
    /\ rows = <<>>
    /\ added = <<>>
    /\ clock = 1
    /\ conn = TRUE
    /\ jcall = "none"
    /\ jout = "none"

\* no batch was run
BatchIdle ==
    /\ batch_world = <<>>
    /\ price_cache = {}
    /\ batch_call = None
    /\ batch_out = None

\* an empty registry, no fetch
RegistryIdle ==
    /\ providers = <<>>
    /\ default_order = <<>>
    /\ fetch_call = None
    /\ fetch_log = <<>>
    /\ fetch_out = None

Init ==
    /\ QuantIdle
    /\ JournalIdle
    /\ BatchIdle
    /\ RegistryIdle
    /\ market = [id \in SeriesIds |-> SeriesFacts(id)]
    /\ ctor_arg = None
    /\ ctor_raised = "None"
    /\ engine = None
    /\ call = None
    /\ outcome = "none"
    /\ rec = None
    /\ n_calls = 0

\* engine = StrategyEngine(weights)
Construct(arg) ==
    /\ ctor_arg = None
    /\ LET r == StrategyEngine_init(arg)
       IN /\ ctor_raised' = r.raised
          /\ engine' = IF r.raised = "None" THEN Some([weights |-> r.weights]) ELSE None
    /\ ctor_arg' = Some(arg)
    /\ UNCHANGED <<market, call, outcome, rec, n_calls>>
    /\ UNCHANGED not_engine_vars

\* what the caller holds after the call with the arguments returned or raised
CallDone(args, r) ==
    /\ outcome' = IF r.raised THEN "raised" ELSE "returned"
    /\ rec' = IF r.raised THEN None ELSE Some(r)
    /\ call' = Some(args)

\* a call of compute_recommendation with some arguments, and what the caller
\* gets back: a recommendation or an exception
CallAndResult ==
    /\ ~IsNone(engine)
    /\ outcome = "none"
    /\ n_calls < MaxCalls
    /\ \E series \in SeriesIds :
         \E forecast \in Forecasts(market[series]),
            risk_snapshot \in RiskSnapshots(market[series]),
            validation_result \in ValidationResults(market[series]),
            raising \in RaisingSets :
              CallDone([series |-> series, forecast |-> forecast,
                        risk_snapshot |-> risk_snapshot,
                        validation_result |-> validation_result,
                        raising |-> raising],
                       compute_recommendation(Val(engine).weights, market[series], forecast,
                                              risk_snapshot, validation_result, raising))
    /\ n_calls' = n_calls + 1
    /\ UNCHANGED not_engine_vars

\* variant: the call leaves the engine with the default weights
ComputeRecommendation_ResetsWeights ==
    /\ CallAndResult
    /\ engine' = Some([weights |-> DEFAULT_WEIGHTS])
    /\ UNCHANGED <<market, ctor_arg, ctor_raised>>

\* variant: a call that raises leaves the engine without its risk weight
ComputeRecommendation_PartialOnRaise ==
    /\ CallAndResult
    /\ engine' = IF outcome' = "raised"
                 THEN Some([weights |-> [k \in DOMAIN Val(engine).weights \ {"risk"} |->
                                            Val(engine).weights[k]]])
                 ELSE engine
    /\ UNCHANGED <<market, ctor_arg, ctor_raised>>

\* rec = engine.compute_recommendation(series, forecast, risk_snapshot, validation_result):
\* the method assigns no attribute of self and none of its arguments
ComputeRecommendation ==
    /\ CallAndResult
    /\ UNCHANGED <<market, ctor_arg, ctor_raised, engine>>

\* the caller drops the recommendation (or the error) before the next call
ClearRecommendation ==
    /\ outcome # "none"
    /\ call' = None
    /\ outcome' = "none"
    /\ rec' = None
    /\ UNCHANGED <<market, ctor_arg, ctor_raised, engine, n_calls>>
    /\ UNCHANGED not_engine_vars

Next ==
    \/ \E arg \in WeightArgs : Construct(arg)
    \/ ComputeRecommendation
    \/ ClearRecommendation

Spec == Init /\ [][Next]_vars

\* ------------------------------------------------------------------------
\* compute_var on samples of returns
\* ------------------------------------------------------------------------
\* lengths of the samples, around MIN_OBSERVATIONS_RISK
SampleLengths == {59, 60, 61, 75}
\* step, bucket width and offset of the residue pattern the sample's returns
\* follow: width 1 gives pairwise different returns, width 8 many ties
SampleSteps == 1..5
SampleWidths == {1, 8}
SampleOffsets == {0, 5, 40}

\* a sample of n returns in basis points
GenReturns(n, step, width, offset) == Seq1([i \in 1..n |-> ((((i * step) % 79) \div width) - offset) * (2 + step)])

InitVar ==
    /\ market = [id \in SeriesIds |-> SeriesFacts(id)]
    /\ EngineIdle
    /\ JournalIdle
    /\ BatchIdle
    /\ RegistryIdle
    /\ var_out = None
    /\ hurst_out = None
    /\ \E n \in SampleLengths, step \in SampleSteps, width \in SampleWidths, offset \in SampleOffsets :
         returns_in = GenReturns(n, step, width, offset)

\* var_95 = compute_var(returns, 0.95); var_99 = compute_var(returns, 0.99)
ComputeVar ==
    /\ IsNone(var_out)
    /\ var_out' = Some([var_95 |-> compute_var(returns_in, 95),
                        var_99 |-> compute_var(returns_in, 99)])
    /\ UNCHANGED <<returns_in, hurst_out>>
    /\ UNCHANGED not_quant_vars

NextVar == ComputeVar

SpecVar == InitVar /\ [][NextVar]_vars

\* ------------------------------------------------------------------------
\* ProviderRegistry: registration and fetch_with_fallback for one symbol
\* ------------------------------------------------------------------------
ProviderNames == {"tradingview", "yfinance", "csv_import"}

\* what a provider does for the symbol: supports_symbol returns False
\* ("unsupported") or raises ("supports_raises"), or it returns True and
\* fetch returns None ("none"), raises ("raises") or returns a series
ProviderKinds == {"unsupported", "supports_raises", "none", "raises", "series"}

Providers == [name : ProviderNames, kind : ProviderKinds]

\* the preferred_provider arguments
PreferredArgs == {None} \cup {Some(n) : n \in ProviderNames}

\* whether the name is in the list
InList(name, list) == \E i \in 1..Len(list) : list[i] = name

\* register(provider, is_default): the new _providers and _default_order
register(registered, order, provider, is_default) ==
    [providers |-> [n \in DOMAIN registered \cup {provider.name} |->
                       IF n = provider.name THEN provider ELSE registered[n]],
     default_order |-> IF is_default /\ ~InList(provider.name, order)
                       THEN Append(order, provider.name) ELSE order]

\* the order fetch_with_fallback builds: preferred first, then the defaults
FetchOrder(registered, order, preferred_provider) ==
    LET first == IF ~IsNone(preferred_provider) /\ Val(preferred_provider) \in DOMAIN registered
                 THEN <<Val(preferred_provider)>> ELSE <<>>
        other(p) == ~InList(p, first)
    IN first \o SelectSeq(order, other)

MethodCall(provider_name, method) == [provider |-> provider_name, method |-> method]

\* the loop of fetch_with_fallback from position i of the order: what the
\* call raises or returns, and the provider methods it called
RECURSIVE TryProviders(_, _, _, _)
TryProviders(registered, order, i, log) ==
    IF i > Len(order) THEN [raised |-> FALSE, result |-> None, log |-> log]
    ELSE LET provider == registered[order[i]]
             asked == Append(log, MethodCall(order[i], "supports_symbol"))
             fetched == Append(asked, MethodCall(order[i], "fetch"))
         IN CASE provider.kind = "supports_raises" ->
                     [raised |-> TRUE, result |-> None, log |-> asked]
              [] provider.kind = "unsupported" -> TryProviders(registered, order, i + 1, asked)
              [] provider.kind = "series" ->
                     [raised |-> FALSE, result |-> Some([source |-> order[i]]), log |-> fetched]
              [] OTHER -> TryProviders(registered, order, i + 1, fetched)

\* fetch_with_fallback(symbol, preferred_provider=...)
fetch_with_fallback(registered, order, preferred_provider) ==
    TryProviders(registered, FetchOrder(registered, order, preferred_provider), 1, <<>>)

InitRegistry ==
    /\ market = <<>>
    /\ EngineIdle
    /\ QuantIdle
    /\ JournalIdle
    /\ BatchIdle
    /\ RegistryIdle

\* registry.register(provider, is_default)
Register(provider, is_default) ==
    /\ IsNone(fetch_call)
    /\ LET r == register(providers, default_order, provider, is_default)
       IN /\ providers' = r.providers
          /\ default_order' = r.default_order
    /\ UNCHANGED <<fetch_call, fetch_log, fetch_out>>
    /\ UNCHANGED not_registry_vars

\* what the caller of fetch_with_fallback holds afterwards
FetchDone(preferred_provider, r) ==
    /\ fetch_call' = Some([preferred_provider |-> preferred_provider])
    /\ fetch_log' = r.log
    /\ fetch_out' = Some([raised |-> r.raised, result |-> r.result])

\* registry.fetch_with_fallback(symbol, preferred_provider=preferred_provider)
FetchWithFallback(preferred_provider) ==
    /\ IsNone(fetch_call)
    /\ FetchDone(preferred_provider, fetch_with_fallback(providers, default_order, preferred_provider))
    /\ UNCHANGED <<providers, default_order>>
    /\ UNCHANGED not_registry_vars

NextRegistry ==
    \/ \E provider \in Providers, is_default \in BOOLEAN : Register(provider, is_default)
    \/ \E preferred_provider \in PreferredArgs : FetchWithFallback(preferred_provider)

SpecRegistry == InitRegistry /\ [][NextRegistry]_vars

\* ------------------------------------------------------------------------
\* compute_hurst applied to samples of returns
\* ------------------------------------------------------------------------
\* sample sizes around MIN_OBSERVATIONS_VALIDATION
HurstLengths == {99, 100, 101, 128}
HurstShapes == {"flat", "alternating", "period4", "period8", "saw", "runs", "noise", "burst"}
HurstAmplitudes == {1, 3}

\* return i of a sample of the given shape, in basis points
GenHurstReturn(i, shape, amp) ==
    CASE shape = "flat" -> 10 * amp
      [] shape = "alternating" -> IF i % 2 = 0 THEN 50 * amp ELSE -50 * amp
      [] shape = "period4" -> <<40, -10, -40, 10>>[(i % 4) + 1] * amp
      [] shape = "period8" -> <<40, 30, -10, 5, -40, -30, 10, -5>>[(i % 8) + 1] * amp
      [] shape = "saw" -> (((i * 7) % 23) - 11) * 5 * amp
      [] shape = "runs" -> (IF (i \div 16) % 2 = 0 THEN 30 ELSE -30) * amp + ((i * 5) % 7) - 3
      [] shape = "noise" -> ((((i * i * 7) + i * 3) % 61) - 30) * 2 * amp
      [] shape = "burst" -> IF i <= 8 THEN 100 * amp ELSE ((i * 3) % 5) - 2

GenHurstReturns(n, shape, amp) == Seq1([i \in 1..n |-> GenHurstReturn(i, shape, amp)])

InitHurst ==
    /\ market = <<>>
    /\ EngineIdle
    /\ JournalIdle
    /\ BatchIdle
    /\ RegistryIdle
    /\ var_out = None
    /\ hurst_out = None
    /\ \E n \in HurstLengths, shape \in HurstShapes, amp \in HurstAmplitudes :
         returns_in = GenHurstReturns(n, shape, amp)

\* result = compute_hurst(returns)
ComputeHurst ==
    /\ IsNone(hurst_out)
    /\ hurst_out' = Some(compute_hurst(returns_in))
    /\ UNCHANGED <<returns_in, var_out>>
    /\ UNCHANGED not_quant_vars

NextHurst == ComputeHurst

SpecHurst == InitHurst /\ [][NextHurst]_vars

\* ------------------------------------------------------------------------
\* The trade journal: TradeJournalStore over its SQLite table and
\* PortfolioTracker over the store
\* ------------------------------------------------------------------------
\* the rows the journal table may hold
MaxRows == 3

\* symbol arguments, and str.upper() on them
SymbolArgs == {"COMI", "comi", "PHDC", ""}
str_upper(symbol) == IF symbol = "comi" THEN "COMI" ELSE symbol

SideArgs == {"long", "short", "up"}
EventTypes == {"entry", "exit"}
EntryPrices == {50}
ExitPrices == {45, 55}

\* the entries handed to the store directly: an entry, the exit of a position
\* that may not be open, and an entry whose side the table's CHECK refuses
\* (symbol, event type, side, price)
EntryArgs == {<<"COMI", "entry", "long", 50>>, <<"PHDC", "exit", "short", 55>>, <<"COMI", "entry", "up", 50>>}

\* JSON values of a recommendation snapshot
JNull == [t |-> "null", n |-> 0, s |-> ""]
JNum(n) == [t |-> "num", n |-> n, s |-> ""]
JStr(s) == [t |-> "str", n |-> 0, s |-> s]

\* the keys of a snapshot, in the order the dict holds them
SnapshotKeys == <<"action", "conviction", "stop_loss", "target_exit">>

\* json.dumps(snapshot): the text, as the sequence of its key/value members
json_dumps(snapshot) ==
    LET present(k) == k \in DOMAIN snapshot
        keys == SelectSeq(SnapshotKeys, present)
    IN Seq1([i \in 1..Len(keys) |-> <<keys[i], snapshot[keys[i]]>>])

\* json.loads(text)
json_loads(text) ==
    [k \in {text[i][1] : i \in 1..Len(text)} |->
        text[CHOOSE i \in 1..Len(text) : text[i][1] = k][2]]

\* the recommendation of the tracker's tests
_make_recommendation == [action |-> "buy", conviction |-> 70, stop_loss |-> Some(45), target_exit |-> Some(58)]
RecommendationArgs == {None, Some(_make_recommendation)}

\* recommendation.model_dump(mode="json"), on the fields the journal reads
model_dump(recommendation) ==
    [action |-> JStr(recommendation.action),
     conviction |-> JNum(recommendation.conviction),
     stop_loss |-> IF IsNone(recommendation.stop_loss) THEN JNull ELSE JNum(Val(recommendation.stop_loss)),
     target_exit |-> IF IsNone(recommendation.target_exit) THEN JNull ELSE JNum(Val(recommendation.target_exit))]

\* TradeJournalEntry(...): id and created_at are drawn at construction (uuid4
\* and datetime.now, both from the clock here); the symbol is uppercased
TradeJournalEntry(now, symbol, event_type, side, price, snapshot) ==
    [id |-> now, created_at |-> now, symbol |-> str_upper(symbol), event_type |-> event_type,
     side |-> side, price |-> price, recommendation_snapshot |-> snapshot, notes |-> None]

\* the row add_entry inserts for an entry
RowOf(entry) ==
    [id |-> entry.id, created_at |-> entry.created_at, symbol |-> str_upper(entry.symbol),
     event_type |-> entry.event_type, side |-> entry.side, price |-> entry.price,
     recommendation_snapshot |-> json_dumps(entry.recommendation_snapshot), notes |-> entry.notes]

\* variant: a row replaces the stored rows of its symbol, side and event type
add_entry_Upsert(table, entry) ==
    LET row == RowOf(entry)
        other(r) == ~(r.symbol = row.symbol /\ r.side = row.side /\ r.event_type = row.event_type)
    IN IF row.event_type \notin EventTypes \/ row.side \notin {"long", "short"}
       THEN [raised |-> "IntegrityError", table |-> table]
       ELSE [raised |-> "None", table |-> Append(SelectSeq(table, other), row)]

\* TradeJournalStore.add_entry: INSERT under the table's PRIMARY KEY and
\* CHECK constraints, then commit
add_entry(table, entry) ==
    LET row == RowOf(entry)
    IN IF \/ row.event_type \notin EventTypes
          \/ row.side \notin {"long", "short"}
          \/ \E i \in 1..Len(table) : table[i].id = row.id
       THEN [raised |-> "IntegrityError", table |-> table]
       ELSE [raised |-> "None", table |-> Append(table, row)]

\* ORDER BY created_at (rows of one created_at stay in insertion order)
OrderByCreatedAt(s) ==
    LET n == Len(s)
        rank(i) == 1 + Cardinality({j \in 1..n :
                        \/ s[j].created_at < s[i].created_at
                        \/ (s[j].created_at = s[i].created_at /\ j < i)})
    IN Seq1([k \in 1..n |-> s[CHOOSE i \in 1..n : rank(i) = k]])

\* TradeJournalStore._row_to_entry
_row_to_entry(row) == [row EXCEPT !.recommendation_snapshot = json_loads(row.recommendation_snapshot)]

\* "if symbol:" holds for a symbol that is given and not empty
SymbolGiven(symbol) == ~IsNone(symbol) /\ Val(symbol) # ""

\* TradeJournalStore.get_all_entries(symbol)
get_all_entries(table, symbol) ==
    LET selected(r) == SymbolGiven(symbol) => r.symbol = str_upper(Val(symbol))
        found == OrderByCreatedAt(SelectSeq(table, selected))
    IN Seq1([i \in 1..Len(found) |-> _row_to_entry(found[i])])

\* variant: an exit closes the entries of its symbol on either side
get_open_positions_AnySide(table, symbol) ==
    LET open(e) ==
            /\ e.event_type = "entry"
            /\ ~\E i \in 1..Len(table) :
                  /\ table[i].event_type = "exit"
                  /\ table[i].symbol = e.symbol
                  /\ table[i].created_at > e.created_at
            /\ (SymbolGiven(symbol) => e.symbol = str_upper(Val(symbol)))
    IN OrderByCreatedAt(SelectSeq(table, open))

\* TradeJournalStore.get_open_positions(symbol)
get_open_positions(table, symbol) ==
    LET open(e) ==
            /\ e.event_type = "entry"
            /\ ~\E i \in 1..Len(table) :
                  /\ table[i].event_type = "exit"
                  /\ table[i].symbol = e.symbol
                  /\ table[i].side = e.side
                  /\ table[i].created_at > e.created_at
            /\ (SymbolGiven(symbol) => e.symbol = str_upper(Val(symbol)))
    IN OrderByCreatedAt(SelectSeq(table, open))

\* realized_return_pct, in hundredths of a percent
RealizedReturn(side, ep, xp) ==
    IF side = "long" THEN RoundDiv((xp - ep) * 10000, ep) ELSE RoundDiv((ep - xp) * 10000, ep)

\* stop_loss_hit of a closed trade, from the stop_loss of the entry's snapshot
StopLossHit(side, entry_snapshot, xp) ==
    LET snap == json_loads(entry_snapshot)
    IN IF "stop_loss" \notin DOMAIN snap THEN None
       ELSE IF snap["stop_loss"].t # "num" THEN None
       ELSE IF side = "long" THEN Some(xp <= snap["stop_loss"].n)
       ELSE Some(xp >= snap["stop_loss"].n)

\* TradeJournalStore.get_closed_trades(symbol): the rows of the join of the
\* exits with the earlier entries of their symbol and side (the order of the
\* rows of one exit is not fixed by the query, so the rows are a set)
get_closed_trades(table, symbol) ==
    LET joined == {p \in (1..Len(table)) \X (1..Len(table)) :
                    /\ table[p[2]].event_type = "exit"
                    /\ table[p[1]].event_type = "entry"
                    /\ table[p[1]].symbol = table[p[2]].symbol
                    /\ table[p[1]].side = table[p[2]].side
                    /\ table[p[1]].created_at < table[p[2]].created_at
                    /\ (SymbolGiven(symbol) => table[p[2]].symbol = str_upper(Val(symbol)))}
    IN {[entry_id |-> table[p[1]].id,
         entry_at |-> table[p[1]].created_at,
         symbol |-> table[p[1]].symbol,
         side |-> table[p[1]].side,
         entry_price |-> table[p[1]].price,
         exit_id |-> table[p[2]].id,
         exit_at |-> table[p[2]].created_at,
         exit_price |-> table[p[2]].price,
         realized_return_pct |-> RealizedReturn(table[p[1]].side, table[p[1]].price, table[p[2]].price),
         stop_loss_hit |-> StopLossHit(table[p[1]].side, table[p[1]].recommendation_snapshot, table[p[2]].price)] : p \in joined}

\* sum of realized_return_pct over a set of closed trades
RECURSIVE SumReturns(_)
SumReturns(trades) ==
    IF trades = {} THEN 0
    ELSE CHOOSE r \in {t.realized_return_pct + SumReturns(trades \ {t}) : t \in {CHOOSE c \in trades : TRUE}} : TRUE

\* TradeJournalStore.compute_performance_summary(symbol); the rates are in
\* 1/10000
compute_performance_summary(table, symbol) ==
    LET closed == get_closed_trades(table, symbol)
        closed_count == Cardinality(closed)
        open_count == Len(get_open_positions(table, symbol))
        wins == Cardinality({t \in closed : t.realized_return_pct > 0})
        sl_evaluable == {t \in closed : ~IsNone(t.stop_loss_hit)}
        sl_hits == Cardinality({t \in sl_evaluable : Val(t.stop_loss_hit)})
    IN IF closed_count = 0
       THEN [closed_trade_count |-> 0, open_trade_count |-> open_count, win_rate |-> None,
             avg_return_pct |-> None, stop_loss_hit_rate |-> None,
             warnings |-> <<"No closed trades to summarize.">>]
       ELSE [closed_trade_count |-> closed_count, open_trade_count |-> open_count,
             win_rate |-> Some(RoundDiv(wins * 10000, closed_count)),
             avg_return_pct |-> Some(RoundDiv(SumReturns(closed), closed_count)),
             stop_loss_hit_rate |-> IF sl_evaluable = {} THEN None
                                    ELSE Some(RoundDiv(sl_hits * 10000, Cardinality(sl_evaluable))),
             warnings |-> IF sl_evaluable = {}
                          THEN <<"No trades with stop-loss data for hit-rate calculation.">>
                          ELSE <<>>]

\* an empty journal file, a connected store, no call made
InitJournal ==
    /\ market = <<>>
    /\ EngineIdle
    /\ QuantIdle
    /\ JournalIdle
    /\ BatchIdle
    /\ RegistryIdle

\* the store accepted the entry built by the caller
Stored(entry, op) ==
    LET r == add_entry(rows, entry)
    IN /\ rows' = r.table
       /\ added' = IF r.raised = "None" THEN Append(added, entry) ELSE added
       /\ clock' = IF r.raised = "None" THEN clock + 1 ELSE clock
       /\ conn' = TRUE
       /\ jcall' = op
       /\ jout' = IF r.raised = "None" THEN "ok" ELSE r.raised

\* the operation raised before the store was written
Rejected(op, error, connected) ==
    /\ jcall' = op
    /\ jout' = error
    /\ conn' = connected
    /\ UNCHANGED <<rows, added, clock>>

\* store.add_entry(TradeJournalEntry(symbol, event_type, side, price,
\* recommendation_snapshot))
AddEntry(arg) ==
    /\ Len(rows) < MaxRows
    /\ Stored(TradeJournalEntry(clock, arg[1], arg[2], arg[3], arg[4], <<>>), "add_entry")
    /\ UNCHANGED not_journal_vars

\* tracker.log_entry(symbol, side, price, recommendation)
LogEntry(symbol, side, price, recommendation) ==
    /\ Len(rows) < MaxRows
    /\ IF side \notin {"long", "short"}
       THEN Rejected("log_entry", "ValueError", conn)
       ELSE LET snapshot == IF IsNone(recommendation) THEN <<>> ELSE model_dump(Val(recommendation))
            IN Stored(TradeJournalEntry(clock, symbol, "entry", side, price, snapshot), "log_entry")
    /\ UNCHANGED not_journal_vars

\* tracker.log_exit(symbol, side, price)
LogExit(symbol, side, price) ==
    /\ Len(rows) < MaxRows
    /\ LET open_pos == get_open_positions(rows, Some(str_upper(symbol)))
           matches(p) == p.side = side
       IN IF SelectSeq(open_pos, matches) = <<>>
          THEN Rejected("log_exit", "ValueError", TRUE)
          ELSE Stored(TradeJournalEntry(clock, symbol, "exit", side, price, <<>>), "log_exit")
    /\ UNCHANGED not_journal_vars

\* store.close()
Close ==
    /\ conn
    /\ conn' = FALSE
    /\ jcall' = "none"
    /\ jout' = "none"
    /\ UNCHANGED <<rows, added, clock>>
    /\ UNCHANGED not_journal_vars

\* TradeJournalStore(db_path) on the journal file: connects and creates the
\* table only if it does not exist
Reopen ==
    /\ ~conn
    /\ conn' = TRUE
    /\ jcall' = "none"
    /\ jout' = "none"
    /\ UNCHANGED <<rows, added, clock>>
    /\ UNCHANGED not_journal_vars

NextJournal ==
    \/ \E arg \in EntryArgs : AddEntry(arg)
    \/ \E symbol \in SymbolArgs, side \in SideArgs, price \in EntryPrices, recommendation \in RecommendationArgs :
          LogEntry(symbol, side, price, recommendation)
    \/ \E symbol \in SymbolArgs, side \in SideArgs, price \in ExitPrices :
          LogExit(symbol, side, price)
    \/ Close
    \/ Reopen

SpecJournal == InitJournal /\ [][NextJournal]_vars

\* the journal written through PortfolioTracker alone
NextTracker ==
    \/ \E symbol \in SymbolArgs, side \in SideArgs, price \in EntryPrices, recommendation \in RecommendationArgs :
          LogEntry(symbol, side, price, recommendation)
    \/ \E symbol \in SymbolArgs, side \in SideArgs, price \in ExitPrices :
          LogExit(symbol, side, price)
    \/ Close
    \/ Reopen

SpecTracker == InitJournal /\ [][NextTracker]_vars

\* ------------------------------------------------------------------------
\* StockSheetInsightsService: insights for a list of symbols
\* ------------------------------------------------------------------------
\* the symbols of the longest list handed to run_batch_insights
MaxBatch == 3

BatchSymbols == {"COMI", "PHDC"}

\* the stock sheet universe_manager.list_symbols() returns
SheetSymbols == <<"COMI", "PHDC">>

\* date.today(), later than the date of every bar
BatchToday == 1000

\* what the collaborators do for one symbol: whether the providers deliver
\* (fresh), whether prediction_service.predict returns, the series delivered,
\* the forecast in percent of its latest close, and the library call that
\* raises inside the strategy engine
Profiles ==
    {[fresh |-> "ok", predict |-> "ok", series |-> "swing", pct |-> 120, raising |-> {}],
     [fresh |-> "raise", predict |-> "ok", series |-> "rally", pct |-> 80, raising |-> {}],
     [fresh |-> "ok", predict |-> "raise", series |-> "swing", pct |-> 120, raising |-> {}],
     [fresh |-> "ok", predict |-> "ok", series |-> "swing", pct |-> 120, raising |-> {"var"}],
     [fresh |-> "ok", predict |-> "ok", series |-> "single", pct |-> 103, raising |-> {}]}

BatchSeries == {p.series : p \in Profiles}

\* PriceService.get_series(symbol, use_cache) over the cached symbols: the
\* cached series if there is one and the cache is used, else the providers'
\* series, which is then cached
get_series(cached, symbol, profile, use_cache) ==
    IF use_cache /\ symbol \in cached THEN [raised |-> FALSE, cached |-> cached]
    ELSE IF profile.fresh = "ok" THEN [raised |-> FALSE, cached |-> cached \cup {symbol}]
    ELSE [raised |-> TRUE, cached |-> cached]

\* StockSheetInsightsService._create_hold_fallback
_create_hold_fallback(symbol, reason, used_cache_fallback) ==
    [symbol |-> symbol, as_of_date |-> BatchToday, action |-> "hold", conviction |-> 0,
     stop_loss |-> None, target_exit |-> None, entry_zone_lower |-> None, entry_zone_upper |-> None,
     status |-> "hold_fallback", status_reason |-> Some(reason),
     used_cache_fallback |-> used_cache_fallback]

\* the field constraints of StockInsight: conviction in 0..100, prices > 0
StockInsightValid(r) ==
    /\ r.conviction \in 0..100
    /\ \A level \in {r.stop_loss, r.target_exit, r.entry_zone_lower, r.entry_zone_upper} :
          IsNone(level) \/ Val(level) > 0

\* step 5 of _process_one_symbol and its outer except: the insight built
\* from what compute_recommendation returned or raised
InsightFrom(symbol, r, used_cache_fallback) ==
    IF r.raised THEN _create_hold_fallback(symbol, "Processing error", used_cache_fallback)
    ELSE IF ~StockInsightValid(r) THEN _create_hold_fallback(symbol, "Processing error", used_cache_fallback)
    ELSE [symbol |-> symbol, as_of_date |-> r.as_of_date, action |-> r.action,
          conviction |-> r.conviction, stop_loss |-> r.stop_loss, target_exit |-> r.target_exit,
          entry_zone_lower |-> r.entry_zone_lower, entry_zone_upper |-> r.entry_zone_upper,
          status |-> "ok", status_reason |-> None,
          used_cache_fallback |-> used_cache_fallback]

\* steps 2 to 4 of _process_one_symbol, on the series that was fetched (a
\* failure of the optional training is caught and leaves no trace in the
\* insight)
InsightOf(symbol, facts, profile, used_cache_fallback) ==
    IF profile.predict = "raise"
    THEN _create_hold_fallback(symbol, "Processing error", used_cache_fallback)
    ELSE InsightFrom(symbol,
                     compute_recommendation(DEFAULT_WEIGHTS, facts[profile.series],
                                            Some((facts[profile.series].current_price * profile.pct) \div 100),
                                            None, None, profile.raising),
                     used_cache_fallback)

\* StockSheetInsightsService._process_one_symbol: the insight and the cache
\* it leaves
_process_one_symbol(cached, symbol, facts, profile, force_refresh) ==
    LET first == get_series(cached, symbol, profile, ~force_refresh)
        second == get_series(first.cached, symbol, profile, TRUE)
        used_cache_fallback == first.raised
        after == IF first.raised THEN second.cached ELSE first.cached
    IN IF first.raised /\ second.raised
       THEN [insight |-> _create_hold_fallback(symbol, "Data unavailable", FALSE), cached |-> after]
       ELSE [insight |-> InsightOf(symbol, facts, profile, used_cache_fallback), cached |-> after]

\* the loop of run_batch_insights from the i-th symbol on
RECURSIVE ProcessFrom(_, _, _, _, _, _, _)
ProcessFrom(symbols, i, cached, results, facts, world, force_refresh) ==
    IF i > Len(symbols) THEN [results |-> results, cached |-> cached]
    ELSE CHOOSE out \in {ProcessFrom(symbols, i + 1, one.cached, Append(results, one.insight), facts, world, force_refresh) :
                            one \in {_process_one_symbol(cached, symbols[i], facts, world[symbols[i]], force_refresh)}} : TRUE

\* the number of results of the status
CountStatus(results, status) == Cardinality({i \in 1..Len(results) : results[i].status = status})

\* the summary and the closing report of run_batch_insights, which divides
\* the elapsed time by len(symbols), and the InsightBatchRun returned
BatchReturn(n_symbols, done) ==
    LET summary == [total |-> Len(done.results),
                    ok |-> CountStatus(done.results, "ok"),
                    hold_fallback |-> CountStatus(done.results, "hold_fallback"),
                    error |-> CountStatus(done.results, "error")]
    IN IF n_symbols = 0
       THEN [raised |-> "ZeroDivisionError", cached |-> done.cached, results |-> <<>>, summary |-> summary]
       ELSE [raised |-> "None", cached |-> done.cached, results |-> done.results, summary |-> summary]

\* the symbols run_batch_insights processes: the sheet if none are given
BatchSymbolList(symbols) ==
    IF IsNone(symbols) THEN SheetSymbols
    ELSE Seq1([i \in 1..Len(Val(symbols)) |-> str_upper(Val(symbols)[i])])

\* StockSheetInsightsService.run_batch_insights(symbols, force_refresh):
\* symbols is None or Some(list)
run_batch_insights(cached, symbols, facts, world, force_refresh) ==
    BatchReturn(Len(BatchSymbolList(symbols)),
                ProcessFrom(BatchSymbolList(symbols), 1, cached, <<>>, facts, world, force_refresh))

\* the lists of at most n symbols
RECURSIVE SymbolLists(_)
SymbolLists(n) ==
    IF n = 0 THEN {<<>>}
    ELSE SymbolLists(n - 1) \cup {Append(l, s) : l \in {x \in SymbolLists(n - 1) : Len(x) = n - 1}, s \in BatchSymbols}

SymbolsArgs == {None} \cup {Some(l) : l \in SymbolLists(MaxBatch)}

\* a service whose collaborators behave in one way per symbol, over some
\* cache of earlier fetches
InitBatch ==
    /\ market = [id \in BatchSeries |-> SeriesFacts(id)]
    /\ EngineIdle
    /\ QuantIdle
    /\ JournalIdle
    /\ RegistryIdle
    /\ batch_world \in [BatchSymbols -> Profiles]
    /\ price_cache \in SUBSET BatchSymbols
    /\ batch_call = None
    /\ batch_out = None

\* the call returned or raised: what the caller and the cache hold then
BatchDone(symbols, force_refresh, out) ==
    /\ batch_call' = Some([symbols |-> symbols, force_refresh |-> force_refresh, cached |-> price_cache])
    /\ batch_out' = Some([raised |-> out.raised, results |-> out.results, summary |-> out.summary])
    /\ price_cache' = out.cached

\* batch = service.run_batch_insights(symbols, force_refresh=force_refresh)
RunBatch ==
    /\ IsNone(batch_call)
    /\ \E symbols \in SymbolsArgs, force_refresh \in BOOLEAN :
          BatchDone(symbols, force_refresh, run_batch_insights(price_cache, symbols, market, batch_world, force_refresh))
    /\ UNCHANGED batch_world
    /\ UNCHANGED not_batch_vars

NextBatch == RunBatch

SpecBatch == InitBatch /\ [][NextBatch]_vars

\* ------------------------------------------------------------------------
\* Properties
\* ------------------------------------------------------------------------
\* the call has returned a recommendation
Returned == outcome = "returned"

\* the blend of the returned recommendation's four scores under the weights
\* the engine holds
BlendedOfRec ==
    LET sc == Val(rec).raw_inputs.scores
    IN Blend(Val(engine).weights, sc.ml, sc.technical, sc.regime, sc.risk)

\* the four scores of the returned recommendation
ScoresOfRec ==
    LET sc == Val(rec).raw_inputs.scores
    IN <<sc.ml, sc.technical, sc.regime, sc.risk>>

\* the mathematical sign of a number
Sign(x) == IF x > 0 THEN 1 ELSE IF x < 0 THEN -1 ELSE 0

\* the number of scores whose sign equals the sign of the blend
SignMatchCount(scores, blended) ==
    Cardinality({i \in 1..Len(scores) : Sign(scores[i]) = Sign(blended)})

\* the engine was built from a given mapping whose values do not sum to 1.0
BuiltFromNonUnitSum ==
    /\ ~IsNone(ctor_arg)
    /\ Val(ctor_arg).given
    /\ ~IsClose(SumValues(Val(ctor_arg).map, DOMAIN Val(ctor_arg).map), WScale)

\* C1: whenever compute_recommendation is called without a forecast, whatever
\* the series, risk snapshot and validation result, the returned action is HOLD.
C1_NoForecastIsHold ==
    (Returned /\ IsNone(Val(call).forecast)) => Val(rec).action = "hold"

\* C2: every returned recommendation whose action is BUY or SELL has stop_loss,
\* entry_zone_lower, entry_zone_upper and risk_distance_pct all non-null, also
\* when no risk snapshot is supplied and the series is too short for VaR.
C2_ActionableHasLevels ==
    (Returned /\ Val(rec).action \in {"buy", "sell"}) =>
        /\ ~IsNone(Val(rec).stop_loss)
        /\ ~IsNone(Val(rec).entry_zone_lower)
        /\ ~IsNone(Val(rec).entry_zone_upper)
        /\ ~IsNone(Val(rec).risk_distance_pct)

\* C3: every returned recommendation whose action is HOLD has entry_zone_lower,
\* entry_zone_upper, stop_loss, target_exit and risk_distance_pct all null,
\* even when a risk distance was computable.
C3_HoldHasNoLevels ==
    (Returned /\ Val(rec).action = "hold") =>
        /\ IsNone(Val(rec).entry_zone_lower)
        /\ IsNone(Val(rec).entry_zone_upper)
        /\ IsNone(Val(rec).stop_loss)
        /\ IsNone(Val(rec).target_exit)
        /\ IsNone(Val(rec).risk_distance_pct)

\* a HOLD recommendation was returned although the risk distance was known
C3_Witness ==
    /\ Returned
    /\ Val(rec).action = "hold"
    /\ ~IsNone(Val(rec).raw_inputs.risk_distance)

\* C4: constructing an engine from a mapping whose values do not sum to 1.0
\* (within 1e-6) raises ValueError, and no engine built from such a mapping
\* ever returns a recommendation.
C4_NonUnitSumRejected ==
    BuiltFromNonUnitSum => (ctor_raised = "ValueError" /\ IsNone(engine) /\ ~Returned)

\* C5: the conviction of every returned recommendation is an integer between
\* 0 and 100, for every weights mapping the constructor accepts.
C5_ConvictionInRange ==
    Returned => Val(rec).conviction \in 0..100

\* a recommendation with full conviction was returned by an engine whose
\* blend of the scores exceeds 1.0 in magnitude
C5_Witness ==
    /\ Returned
    /\ Val(rec).conviction = 100
    /\ Abs(BlendedOfRec) > BScale

\* C6: the action is BUY exactly when blended >= +0.20 and conviction >= 30,
\* SELL exactly when blended <= -0.20 and conviction >= 30, and HOLD otherwise.
C6_ActionRule ==
    Returned =>
        LET b == BlendedOfRec
            c == Val(rec).conviction
            a == Val(rec).action
        IN /\ a = "buy" <=> (b >= _BUY_THRESHOLD /\ c >= _MIN_CONVICTION)
           /\ a = "sell" <=> (b <= _SELL_THRESHOLD /\ c >= _MIN_CONVICTION)
           /\ a = "hold" <=> ~((b >= _BUY_THRESHOLD \/ b <= _SELL_THRESHOLD) /\ c >= _MIN_CONVICTION)

\* a HOLD was returned although the blend is beyond the SELL threshold,
\* because the conviction is below 30
C6_Witness ==
    /\ Returned
    /\ Val(rec).action = "hold"
    /\ BlendedOfRec <= _SELL_THRESHOLD
    /\ Val(rec).conviction < _MIN_CONVICTION

\* C7: conviction = round(100 * min(1, |blended|) * alignment) clamped to
\* [0, 100], where alignment is the number of the four scores whose sign
\* matches the sign of blended, divided by 4.
C7_ConvictionFormula ==
    Returned =>
        Val(rec).conviction = Conviction(BlendedOfRec, SignMatchCount(ScoresOfRec, BlendedOfRec))

\* C8: when the computation of one evidence source raises, the call still
\* returns a recommendation; the exception never reaches the caller.
C8_SourceFailureIsolated ==
    (outcome # "none" /\ Val(call).raising # {} /\ Sources \subseteq DOMAIN Val(engine).weights)
        => Returned

\* C9: a call without risk snapshot and validation result returns the same
\* action, conviction, regime and price levels as the call with
\* compute_risk_snapshot(series) and compute_validation(series) supplied.
C9_SnapshotSubstitution ==
    (Returned /\ IsNone(Val(call).risk_snapshot) /\ IsNone(Val(call).validation_result)
       /\ Val(call).raising = {}) =>
        LET f == market[Val(call).series]
            other == compute_recommendation(Val(engine).weights, f, Val(call).forecast,
                                            Some(f.risk_snapshot), Some(f.validation), {})
            mine == Val(rec)
        IN /\ ~other.raised
           /\ other.action = mine.action
           /\ other.conviction = mine.conviction
           /\ other.regime = mine.regime
           /\ other.entry_zone_lower = mine.entry_zone_lower
           /\ other.entry_zone_upper = mine.entry_zone_upper
           /\ other.target_exit = mine.target_exit
           /\ other.stop_loss = mine.stop_loss
           /\ other.risk_distance_pct = mine.risk_distance_pct

\* C10: raw_inputs['weights'] of every returned recommendation equals the
\* weights mapping the engine used for the blend.
C10_WeightsDisclosed ==
    Returned => Val(rec).raw_inputs.weights = Val(engine).weights

\* the latest close of the series of the call
CloseOfCall == market[Val(call).series].current_price

\* the returned recommendation carries price levels
HasLevels == Returned /\ ~IsNone(Val(rec).stop_loss)

\* C11: after rounding to 4 decimals, every BUY with levels has
\* stop_loss < entry_zone_lower < current close < entry_zone_upper, and every
\* SELL with levels has entry_zone_lower < entry_zone_upper < stop_loss, for
\* every positive close and every risk distance in [0.5%, 10%].
C11_LevelOrdering ==
    HasLevels =>
        LET r == Val(rec)
            lower == Val(r.entry_zone_lower)
            upper == Val(r.entry_zone_upper)
            stop == Val(r.stop_loss)
        IN /\ r.action = "buy" => (stop < lower /\ lower < CloseOfCall /\ CloseOfCall < upper)
           /\ r.action = "sell" => (lower < upper /\ upper < stop)

\* what the engine built from the constructor argument returns for the
\* arguments of the call, computed afresh
FreshResult ==
    LET c == Val(call)
    IN compute_recommendation(StrategyEngine_init(Val(ctor_arg)).weights, market[c.series],
                              c.forecast, c.risk_snapshot, c.validation_result, c.raising)

C15_VarOrdering ==
    /\ ~IsNone(var_out) =>
        LET v == Val(var_out)
        IN IF Len(returns_in) >= MIN_OBSERVATIONS_RISK
           THEN ~IsNone(v.var_95) /\ ~IsNone(v.var_99) /\ Val(v.var_99) <= Val(v.var_95)
           ELSE IsNone(v.var_95) /\ IsNone(v.var_99)
    /\ \A id \in DOMAIN market :
        LET snap == market[id].risk_snapshot
        IN (~IsNone(snap.var_95_pct) /\ ~IsNone(snap.var_99_pct))
               => Val(snap.var_99_pct) <= Val(snap.var_95_pct)

\* both VaRs were computed from a sample of exactly 60 returns, and the 99%
\* VaR is strictly below the 95% VaR
C15_Witness ==
    /\ ~IsNone(var_out)
    /\ Len(returns_in) = MIN_OBSERVATIONS_RISK
    /\ ~IsNone(Val(var_out).var_99)
    /\ Val(Val(var_out).var_99) < Val(Val(var_out).var_95)

\* every exit of the journal was written while a position of its symbol and
\* side was open
WellFormedJournal ==
    \A i \in 1..Len(rows) :
        rows[i].event_type = "exit" =>
            \E k \in 1..Len(get_open_positions(SubSeq(rows, 1, i - 1), None)) :
                LET p == get_open_positions(SubSeq(rows, 1, i - 1), None)[k]
                IN p.symbol = rows[i].symbol /\ p.side = rows[i].side

ExitRows == {i \in 1..Len(rows) : rows[i].event_type = "exit"}

\* C16: after entry/exit events with strictly increasing timestamps,
\* get_closed_trades holds exactly one closed trade per exit event (and so
\* does closed_trade_count of the performance summary), and no entry event
\* is in more than one closed trade.
C16_ClosedTradePairing ==
    WellFormedJournal =>
        LET trades == get_closed_trades(rows, None)
        IN /\ Cardinality(trades) = Cardinality(ExitRows)
           /\ compute_performance_summary(rows, None).closed_trade_count = Cardinality(ExitRows)
           /\ \A t1 \in trades, t2 \in trades : t1.entry_id = t2.entry_id => t1 = t2

\* the open positions of a table that are of the symbol and side
OpenOf(table, symbol, side) ==
    LET mine(p) == p.symbol = symbol /\ p.side = side
    IN SelectSeq(get_open_positions(table, None), mine)

\* the ids of the added entry events that no added exit event of the same
\* symbol and side follows in time
UnexitedIds ==
    {added[i].id : i \in {k \in 1..Len(added) :
        /\ added[k].event_type = "entry"
        /\ ~\E x \in 1..Len(added) :
              /\ added[x].event_type = "exit"
              /\ added[x].symbol = added[k].symbol
              /\ added[x].side = added[k].side
              /\ added[x].created_at > added[k].created_at}}

\* a log_exit has just succeeded
LogExitSucceeded == jcall' = "log_exit" /\ jout' = "ok" /\ Len(rows') = Len(rows) + 1

\* C17: an entry event is open exactly when no exit event of its symbol and
\* side has a later timestamp; after a successful log_exit(symbol, side) there
\* is no open position of that symbol and side, and the open positions of
\* every other symbol or side are as before.
C17_OpenPositions ==
    /\ [](LET open == get_open_positions(rows, None)
          IN {open[i].id : i \in 1..Len(open)} = UnexitedIds)
    /\ [][LogExitSucceeded =>
            LET exit == rows'[Len(rows')]
            IN /\ OpenOf(rows', exit.symbol, exit.side) = <<>>
               /\ \A symbol \in {str_upper(a) : a \in SymbolArgs}, side \in SideArgs :
                    (symbol # exit.symbol \/ side # exit.side)
                        => OpenOf(rows', symbol, side) = OpenOf(rows, symbol, side)]_vars

\* log_exit has just closed a position while a position of another symbol or
\* side stays open
C17_Witness ==
    /\ jcall = "log_exit"
    /\ jout = "ok"
    /\ LET exit == rows[Len(rows)]
       IN /\ \E i \in 1..Len(rows) :
                rows[i].event_type = "entry" /\ rows[i].symbol = exit.symbol /\ rows[i].side = exit.side
          /\ OpenOf(rows, exit.symbol, exit.side) = <<>>
          /\ get_open_positions(rows, None) # <<>>

\* C18: log_exit(symbol, side) raises ValueError when no position of the
\* symbol and side is open, and log_entry raises ValueError when the side is
\* neither 'long' nor 'short'; in both cases the stored entries are unchanged.
C18_RejectedChangesNothing ==
    [][/\ \A symbol \in SymbolArgs, side \in SideArgs, price \in ExitPrices :
            (LogExit(symbol, side, price) /\ OpenOf(rows, str_upper(symbol), side) = <<>>)
                => (jout' = "ValueError" /\ rows' = rows)
       /\ \A symbol \in SymbolArgs, side \in SideArgs, price \in EntryPrices, recommendation \in RecommendationArgs :
            (LogEntry(symbol, side, price, recommendation) /\ side \notin {"long", "short"})
                => (jout' = "ValueError" /\ rows' = rows)]_vars

\* C19: every add_entry that succeeds adds exactly one row, no operation
\* changes or removes a stored row, and, also after close and reopen of the
\* store, get_all_entries returns every entry ever added exactly once, with its
\* id, symbol, event type, side, price and recommendation snapshot, in the
\* order of created_at.
C19_AppendOnly ==
    /\ [](get_all_entries(rows, None) = added)
    /\ [](\A i \in 1..Len(added) : \A k \in 1..Len(added) :
            i < k => added[i].created_at <= added[k].created_at)
    /\ [][/\ Len(rows') >= Len(rows)
          /\ SubSeq(rows', 1, Len(rows)) = rows
          /\ Len(rows') <= Len(rows) + 1
          /\ (jcall' # "none" /\ jout' = "ok") => Len(rows') = Len(rows) + 1]_vars

\* the store was closed and reopened over a journal of two or more rows, one
\* of them with a recommendation snapshot
C19_Witness ==
    /\ conn
    /\ jcall = "none"
    /\ Len(rows) >= 2
    /\ \E i \in 1..Len(rows) : rows[i].recommendation_snapshot # <<>>
    /\ Len(get_all_entries(rows, None)) = Len(rows)

\* the symbols the batch call was given
BatchList ==
    IF IsNone(Val(batch_call).symbols) THEN SheetSymbols ELSE Val(Val(batch_call).symbols)

\* C20: for every list of symbols, the empty one included, run_batch_insights
\* returns one insight per input symbol in input order; a symbol whose fetch,
\* forecast or recommendation raises gets HOLD with conviction 0 and no
\* stop-loss or target, and every symbol's insight is the one it gets when
\* processed alone; summary.total = ok + hold_fallback + error = the number
\* of symbols.
C20_BatchIsolation ==
    ~IsNone(batch_out) =>
        LET out == Val(batch_out)
            c == Val(batch_call)
        IN /\ out.raised = "None"
           /\ Len(out.results) = Len(BatchList)
           /\ \A i \in 1..Len(BatchList) :
                /\ out.results[i].symbol = BatchList[i]
                /\ \E cached \in SUBSET BatchSymbols :
                      out.results[i] = _process_one_symbol(cached, BatchList[i], market,
                                                           batch_world[BatchList[i]], c.force_refresh).insight
                /\ out.results[i].status # "ok" =>
                      /\ out.results[i].action = "hold"
                      /\ out.results[i].conviction = 0
                      /\ IsNone(out.results[i].stop_loss)
                      /\ IsNone(out.results[i].target_exit)
           /\ out.summary.total = Len(BatchList)
           /\ out.summary.total = out.summary.ok + out.summary.hold_fallback + out.summary.error

\* the results of the batch whose processing failed with an exception
ProcessingFailures ==
    {i \in 1..Len(Val(batch_out).results) :
        Val(batch_out).results[i].status_reason = Some("Processing error")}

\* C21: a symbol whose processing fails with an exception has status ERROR
\* (action HOLD), one whose data is unavailable has status HOLD_FALLBACK, a
\* computed one has status OK; status_reason is non-null exactly when the
\* status is not OK, and summary.error counts the processing failures.
C21_StatusConvention ==
    (~IsNone(batch_out) /\ Val(batch_out).raised = "None") =>
        LET out == Val(batch_out)
        IN /\ \A i \in 1..Len(out.results) :
                LET r == out.results[i]
                IN /\ r.status \in {"ok", "hold_fallback", "error"}
                   /\ (r.status # "ok") = ~IsNone(r.status_reason)
                   /\ r.status # "ok" => r.action = "hold"
                   /\ r.status_reason = Some("Processing error") => r.status = "error"
                   /\ r.status_reason = Some("Data unavailable") => r.status = "hold_fallback"
           /\ out.summary.error = Cardinality(ProcessingFailures)

\* the risk distance of the returned levels, in 1/RScale
RdOfRec == Val(Val(rec).risk_distance_pct) \div 100

\* the trend-following target: the forecast, capped at four risk distances
\* from the close on the side of the action
TrendTarget ==
    LET cap == IF Val(rec).action = "buy"
               THEN RoundPrice(CloseOfCall, 4 * CloseOfCall * RdOfRec, RScale)
               ELSE RoundPrice(CloseOfCall, -4 * CloseOfCall * RdOfRec, RScale)
        forecast == Val(call).forecast
    IN IF IsNone(forecast) THEN cap
       ELSE IF Val(rec).action = "buy" THEN Min(Val(forecast), cap) ELSE Max(Val(forecast), cap)

\* the mean-reversion target: EMA(50) if it is on the favourable side of the
\* close, else one and a half risk distances from the close
MeanReversionTarget ==
    LET ema == IF "ema" \in Val(call).raising THEN CloseOfCall ELSE market[Val(call).series].ema50
    IN IF Val(rec).action = "buy"
       THEN IF ema > CloseOfCall THEN ema
            ELSE RoundPrice(CloseOfCall, 3 * CloseOfCall * RdOfRec, 2 * RScale)
       ELSE IF ema < CloseOfCall THEN ema
            ELSE RoundPrice(CloseOfCall, -3 * CloseOfCall * RdOfRec, 2 * RScale)

\* C22: the target of a BUY/SELL recommendation is the mean-reversion target
\* when, and only when, the regime is mean_reverting; for every other regime
\* (trending, unknown) it is the forecast capped at four risk distances.
C22_RegimeTarget ==
    HasLevels =>
        IF Val(rec).regime = "mean_reverting"
        THEN Val(Val(rec).target_exit) = MeanReversionTarget
        ELSE Val(Val(rec).target_exit) = TrendTarget

\* C23: whenever a BUY or SELL recommendation carries levels, its target is on
\* the profitable side of the current close: above it (hence above the
\* stop-loss) for a BUY, below it (hence below the stop-loss) for a SELL.
C23_TargetProfitable ==
    HasLevels =>
        LET r == Val(rec)
        IN /\ r.action = "buy" =>
                /\ Val(r.target_exit) > CloseOfCall
                /\ Val(r.target_exit) > Val(r.stop_loss)
           /\ r.action = "sell" =>
                /\ Val(r.target_exit) < CloseOfCall
                /\ Val(r.target_exit) < Val(r.stop_loss)

\* blend, conviction and action decided from four scores under the weights
DecisionOf(weights, scores) ==
    LET blended == Blend(weights, scores[1], scores[2], scores[3], scores[4])
        conviction == Conviction(blended, AlignCount(scores, blended))
    IN [blended |-> blended, conviction |-> conviction, action |-> Action(blended, conviction)]

\* the four scores negated
Negated(scores) == <<-scores[1], -scores[2], -scores[3], -scores[4]>>

\* BUY and SELL swapped, HOLD kept
Mirrored(action) == IF action = "buy" THEN "sell" ELSE IF action = "sell" THEN "buy" ELSE action

\* C24: for the four scores of any returned recommendation and the engine's
\* weights, negating all four scores negates the blend, leaves the conviction
\* unchanged and swaps BUY with SELL (HOLD stays HOLD), also when some scores
\* are exactly 0.
C24_SignSymmetry ==
    Returned =>
        LET d == DecisionOf(Val(engine).weights, ScoresOfRec)
            n == DecisionOf(Val(engine).weights, Negated(ScoresOfRec))
        IN /\ n.blended = -d.blended
           /\ n.conviction = d.conviction
           /\ n.action = Mirrored(d.action)

\* the call just made, repeated with the default weights
CallWithDefaultWeights ==
    compute_recommendation(DEFAULT_WEIGHTS, market[Val(call).series], Val(call).forecast,
                           Val(call).risk_snapshot, Val(call).validation_result, Val(call).raising)

\* C25: an engine that was constructed holds a weight for each of the four
\* sources ml, technical, regime and risk, and a call of compute_recommendation
\* on it never fails because of the weights: it raises only if the same call
\* raises with the default weights too.
C25_WeightsCompleteAfterConstruction ==
    ~IsNone(engine) =>
        /\ Sources \subseteq DOMAIN Val(engine).weights
        /\ outcome = "raised" => CallWithDefaultWeights.raised

\* the 95% VaR the call just made works with: the snapshot's when it has one,
\* else the one computed from the series
VarOfCall ==
    LET risk_snapshot == Val(call).risk_snapshot
    IN IF ~IsNone(risk_snapshot) /\ ~IsNone(Val(risk_snapshot).var_95_pct)
       THEN Val(risk_snapshot).var_95_pct
       ELSE market[Val(call).series].var_95

\* C26: when a 95% VaR is available the risk distance of a recommendation is
\* |VaR95| clamped to [0.5%, 10%] whatever the sign of the VaR, and a non-null
\* risk_distance_pct is that distance in percent, within [0.5, 10.0]; when no
\* VaR is available the risk distance is null and the risk score is 0.
C26_RiskDistanceClamp ==
    Returned =>
        LET r == Val(rec)
        IN IF IsNone(VarOfCall)
           THEN /\ r.raw_inputs.risk_distance = None
                /\ r.risk_distance_pct = None
                /\ r.raw_inputs.scores.risk = 0
           ELSE LET d == Max(_MIN_RISK_DISTANCE, Min(_MAX_RISK_DISTANCE, Abs(Val(VarOfCall))))
                IN /\ r.raw_inputs.risk_distance = Some(d)
                   /\ ~IsNone(r.risk_distance_pct) =>
                        /\ Val(r.risk_distance_pct) = 100 * d
                        /\ Val(r.risk_distance_pct) >= 5000
                        /\ Val(r.risk_distance_pct) <= 100000

\* levels were returned for a positive VaR beyond the upper clamp, and in an
\* earlier or later call for a VaR inside the lower clamp
C26_Witness ==
    /\ HasLevels
    /\ ~IsNone(VarOfCall)
    /\ \/ Val(VarOfCall) > _MAX_RISK_DISTANCE /\ Val(rec).risk_distance_pct = Some(100000)
       \/ Abs(Val(VarOfCall)) < _MIN_RISK_DISTANCE /\ Val(rec).risk_distance_pct = Some(5000)

\* all evidence signals of the returned recommendation
EvidenceOfRec == Val(rec).evidence_bullish \o Val(rec).evidence_bearish \o Val(rec).evidence_neutral

\* the number of returned signals with the given source
SignalCount(source) ==
    Cardinality({i \in 1..Len(EvidenceOfRec) : EvidenceOfRec[i].source = source})

\* the technical indicators that could be computed in the call just made
ComputableIndicators ==
    LET f == market[Val(call).series]
        raising == Val(call).raising
    IN {s \in {"rsi", "macd", "ema"} : s \notin raising /\ (s = "rsi" => ~IsNone(f.rsi))}

\* C27: a recommendation carries exactly one ml_forecast, one hurst and one
\* var signal, and one technical signal per computable indicator among RSI,
\* MACD and EMA (a single neutral placeholder when none is computable, so one
\* to three in all); each signal sits in the list named by its direction, a
\* bullish signal has a score above 0 and a bearish one a score below 0.
C27_EvidenceBucketing ==
    Returned =>
        LET r == Val(rec)
            technical == SignalCount("rsi") + SignalCount("macd") + SignalCount("ema")
        IN /\ SignalCount("ml_forecast") = 1
           /\ SignalCount("hurst") = 1
           /\ SignalCount("var") = 1
           /\ technical \in 1..3
           /\ Len(EvidenceOfRec) = 3 + technical
           /\ IF ComputableIndicators = {}
              THEN technical = 1
              ELSE \A s \in {"rsi", "macd", "ema"} :
                      SignalCount(s) = IF s \in ComputableIndicators THEN 1 ELSE 0
           /\ \A i \in 1..Len(r.evidence_bullish) :
                 r.evidence_bullish[i].direction = "bullish" /\ r.evidence_bullish[i].score > 0
           /\ \A i \in 1..Len(r.evidence_bearish) :
                 r.evidence_bearish[i].direction = "bearish" /\ r.evidence_bearish[i].score < 0
           /\ \A i \in 1..Len(r.evidence_neutral) : r.evidence_neutral[i].direction = "neutral"

\* a recommendation made when no technical indicator could be computed, with
\* signals in the bullish and in the bearish list
C27_Witness ==
    /\ Returned
    /\ ComputableIndicators = {}
    /\ Val(rec).evidence_bullish # <<>>
    /\ Val(rec).evidence_bearish # <<>>

\* the sum of block b of size 2^j of the sample
BlockSum(data, j, b) == SumRange(data, (b - 1) * (2 ^ j) + 1, b * (2 ^ j))

\* the block sizes 2^j up to n/4 with at least two blocks whose means are not
\* all equal (a positive variance of the block means)
UsableBlockSizes(data) ==
    {j \in 1..29 :
        /\ 2 ^ j <= Max(2, Len(data) \div 4)
        /\ Len(data) \div (2 ^ j) >= 2
        /\ \E b \in 2..(Len(data) \div (2 ^ j)) : BlockSum(data, j, b) # BlockSum(data, j, 1)}

\* C28: compute_hurst returns hurst and hurst_regime both None or both
\* non-None; both are None when the sample has fewer than 100 observations or
\* fewer than 3 usable block sizes; a non-None hurst lies in [0, 1] and its
\* regime is mean_reverting iff hurst < 0.4, trending iff hurst > 0.6 and
\* random_like iff 0.4 <= hurst <= 0.6.
C28_HurstRegime ==
    ~IsNone(hurst_out) =>
        LET r == Val(hurst_out)
        IN /\ IsNone(r.hurst) <=> r.hurst_regime = "None"
           /\ (Len(returns_in) < MIN_OBSERVATIONS_VALIDATION
               \/ Cardinality(UsableBlockSizes(returns_in)) < 3) => IsNone(r.hurst)
           /\ ~IsNone(r.hurst) =>
                /\ 0 <= Val(r.hurst) /\ Val(r.hurst) <= SScale
                /\ r.hurst_regime = "mean_reverting" <=> Val(r.hurst) < 400
                /\ r.hurst_regime = "trending" <=> Val(r.hurst) > 600
                /\ r.hurst_regime = "random_like" <=> (400 <= Val(r.hurst) /\ Val(r.hurst) <= 600)

\* a sample of exactly 100 observations classified random_like
C28_Witness ==
    /\ ~IsNone(hurst_out)
    /\ Len(returns_in) = MIN_OBSERVATIONS_VALIDATION
    /\ Val(hurst_out).hurst_regime = "random_like"

\* the rows of the given event type, symbol and side among the first i rows
EventsIn(i, event_type, symbol, side) ==
    {k \in 1..i : /\ rows[k].event_type = event_type
                  /\ rows[k].symbol = symbol
                  /\ rows[k].side = side}

\* C29: in a journal written by PortfolioTracker.log_entry and log_exit calls
\* alone, for every symbol and side every prefix of the journal holds at most
\* as many exits as entries, and between two exits of the same symbol and side
\* there is an entry of that symbol and side.
C29_TrackerJournalWellFormed ==
    \A i \in 1..Len(rows) :
        rows[i].event_type = "exit" =>
            LET symbol == rows[i].symbol
                side == rows[i].side
            IN /\ Cardinality(EventsIn(i, "exit", symbol, side))
                    <= Cardinality(EventsIn(i, "entry", symbol, side))
               /\ \A a \in EventsIn(i - 1, "exit", symbol, side) :
                     \E c \in EventsIn(i, "entry", symbol, side) : a < c

\* the order the claim prescribes for the fetch just made: the preferred
\* provider if it is registered, then the default chain without it
ExpectedOrder ==
    LET preferred == Val(fetch_call).preferred_provider
        first == IF IsNone(preferred) \/ Val(preferred) \notin DOMAIN providers
                 THEN <<>> ELSE preferred
        later(n) == first = <<>> \/ n # first[1]
    IN first \o SelectSeq(default_order, later)

\* the providers on which the method was called during the fetch, in order
CalledFor(method) ==
    LET chosen(c) == c.method = method
        calls == SelectSeq(fetch_log, chosen)
    IN Seq1([i \in 1..Len(calls) |-> calls[i].provider])

\* C30: fetch_with_fallback asks the providers in the order 'preferred (if
\* registered), then the default chain in registration order', each at most
\* once; it returns the series of the first provider that supports the symbol
\* and returns one, and calls no provider after it; a provider that does not
\* support the symbol, returns nothing or raises is skipped; the result is
\* None exactly when every provider of the order was skipped, and the call
\* never raises.
C30_FallbackOrder ==
    ~IsNone(fetch_out) =>
        LET out == Val(fetch_out)
            order == ExpectedOrder
            serving == {i \in 1..Len(order) : providers[order[i]].kind = "series"}
            last == IF serving = {} THEN Len(order)
                    ELSE CHOOSE i \in serving : \A o \in serving : i <= o
            supported(n) == providers[n].kind \notin {"unsupported", "supports_raises"}
        IN /\ ~out.raised
           /\ \A i, j \in 1..Len(order) : order[i] = order[j] => i = j
           /\ CalledFor("supports_symbol") = SubSeq(order, 1, last)
           /\ CalledFor("fetch") = SelectSeq(SubSeq(order, 1, last), supported)
           /\ out.result = IF serving = {} THEN None ELSE Some([source |-> order[last]])
           /\ IsNone(out.result) <=> \A i \in 1..Len(order) : providers[order[i]].kind # "series"

====
